---- MODULE Spec2Model ----
(***************************************************************************)
(* Nintendo news bot: the listing pipeline (fetchNintendoNews), and the    *)
(* Bottleneck rate limiter every HTTP GET of the bot goes through.         *)
(*                                                                         *)
(* JavaScript strings are sequences of one-character strings, so that      *)
(* trim, startsWith, includes, replace and the date regular expression are *)
(* computed character by character.  The JavaScript value undefined is the *)
(* one-element sequence Undefined, which no string equals.                 *)
(***************************************************************************)
EXTENDS Integers, Sequences, FiniteSets, TLC

VARIABLES
    \* fetchNintendoNews, one call
    doc,        \* the listing page the site serves ($ = load(response.data))
    limit,      \* the argument of fetchNintendoNews
    phase,      \* "fetching": awaiting the page; "returned": the try block
                \* returned; "caught": the catch block returned
    selector,   \* the local selectedSelector at the return: an index into
                \* potentialSelectors, 0 for ''
    path,       \* the branch that built the result: "selector" or "fallback"
    newsItems,  \* the array fetchNintendoNews returned
    \* the process-wide limiter and the command handlers using it
    now,                    \* seconds since the limiter was constructed
    reservoir,              \* permits left in the bucket
    running,                \* jobs registered and not yet freed
    nextRequestIn,          \* max(_nextRequest - now, 0): seconds until the next start is allowed
    lastReservoirRefresh,   \* time of the last refill (of the construction before the first)
    queue,                  \* the runs whose GET is queued, oldest first
    job,                    \* per run, its GET: "none", "queued", "scheduled", "executing"
    at,                     \* per run, the time its scheduled GET is due to start
    pc,                     \* per run, where its /nintendonews handler stands
    \* observers
    sinceDispatch,          \* seconds since the last GET was started, up to MaxGap
    admitted,               \* GETs registered (a permit taken) since the last refill
    dispatched,             \* GETs started since the last refill (since the construction
                            \* before the first)
    \* one /nintendonews command
    guild,          \* interaction.guild is set: the command came from a server
    targetChannel,  \* targetChannel: Null, a channel of the guild, or interaction.channel
    countOption,    \* interaction.options.getInteger('count'): Null when omitted
    rpc,            \* the await the handler is suspended at, or how it ended:
                    \* "done" by a return, "rejected" by an exception it let through
    itemIndex,      \* the turn of the loop for (const news of newsItems), from 1
    articlePage,    \* what the last article GET gave: a page, or Rejected
    details,        \* the last articleDetails
    gets,           \* every GET issued so far, oldest first
    sent,           \* the embeds sent to the channel, oldest first
    reply,          \* the last reply of the interaction that Discord accepted
    error,          \* what the handler's catch caught: "none", "embed" or "editReply"
    \* the guild, and the /setupchannels commands
    flagsDefined,      \* the installed discord.js has PermissionsBitField.FLAGS
    roles,             \* guild.roles.cache: the names of the roles, oldest first
    channels,          \* guild.channels.cache: the channels, oldest first
    roleAttempts,      \* calls of guild.roles.create
    attempted,         \* the names /setupchannels called guild.channels.create with, oldest first
    interaction,       \* per command, guild: sent from a server; administrator: by an administrator
    spc,               \* per command, the await its handler is suspended at, or how it ended
    channelIndex,      \* per command, the turn of the loop over ALLOWED_CHANNEL_NAMES, from 1
    createdChannels,   \* per command, createdChannels
    followUps,         \* per command, the names a follow-up message was sent for
    setupReply         \* per command, the last reply that Discord accepted

listingVars == <<doc, limit, phase, selector, path, newsItems>>

limiterVars == <<now, reservoir, running, nextRequestIn, lastReservoirRefresh, queue, job, at,
                 pc, sinceDispatch, admitted, dispatched>>

runVars == <<guild, targetChannel, countOption, rpc, itemIndex, articlePage, details, gets, sent, reply, error>>

\* the variables of /setupchannels but the channel cache
setupLocal == <<interaction, flagsDefined, roles, spc, channelIndex, roleAttempts,
                attempted, createdChannels, followUps, setupReply>>

setupVars == <<setupLocal, channels>>

vars == <<listingVars, limiterVars, runVars, setupVars>>

-----------------------------------------------------------------------------
(* JavaScript string primitives *)

Undefined == <<"undefined">>

Truthy(v) == v # <<>> /\ v # Undefined

\* a || b
Or(a, b) == IF Truthy(a) THEN a ELSE b

\* A string is the sequence of its UTF-16 code units, each written as a
\* one-character string; a code unit outside printable ASCII is written "U+XXXX".

\* the WhiteSpace and LineTerminator code points, which String.prototype.trim strips
WhiteSpace ==
    { " ", "\t", "\n", "\r", "\f", "U+000B", "U+00A0", "U+FEFF", "U+1680",
      "U+2000", "U+2001", "U+2002", "U+2003", "U+2004", "U+2005", "U+2006",
      "U+2007", "U+2008", "U+2009", "U+200A", "U+2028", "U+2029", "U+202F",
      "U+205F", "U+3000" }

IsSpace(c) == c \in WhiteSpace

RECURSIVE TrimStart(_)
TrimStart(s) ==
    IF s # <<>> /\ IsSpace(Head(s)) THEN TrimStart(Tail(s)) ELSE s

RECURSIVE TrimEnd(_)
TrimEnd(s) ==
    IF s # <<>> /\ IsSpace(s[Len(s)]) THEN TrimEnd(SubSeq(s, 1, Len(s) - 1)) ELSE s

\* String.prototype.trim
Trim(s) == TrimEnd(TrimStart(s))

\* String.prototype.startsWith
StartsWith(s, p) == Len(s) >= Len(p) /\ SubSeq(s, 1, Len(p)) = p

\* String.prototype.indexOf, 0-based, -1 when absent
IndexOf(s, p) ==
    LET hits == {i \in 0..(Len(s) - Len(p)) : SubSeq(s, i + 1, i + Len(p)) = p}
    IN  IF hits = {} THEN -1 ELSE CHOOSE i \in hits : \A j \in hits : i <= j

\* String.prototype.includes
Includes(s, p) == IndexOf(s, p) >= 0

\* String.prototype.substring(from), 0-based
SubstringFrom(s, from) ==
    IF from >= Len(s) THEN <<>> ELSE SubSeq(s, from + 1, Len(s))

\* String.prototype.substring(0, to)
SubstringTo(s, to) ==
    IF to >= Len(s) THEN s ELSE SubSeq(s, 1, to)

\* String.prototype.replace(p, '') with a string pattern: the first occurrence only
RemoveFirst(s, p) ==
    LET i == IndexOf(s, p)
    IN  IF i < 0 THEN s ELSE SubSeq(s, 1, i) \o SubstringFrom(s, i + Len(p))

\* x.toLowerCase().includes('news').  toLowerCase replaces each character by
\* one or more code units, in place; the code units n, e, w and s occur only in
\* the images of these letters and of their capitals (no other character of
\* Unicode lowers to a text that holds one of them), so the lowered text holds
\* "news" exactly where x holds the four letters in a row, in either case.
NewsLetters == << {"n", "N"}, {"e", "E"}, {"w", "W"}, {"s", "S"} >>

lowerIncludesNews(x) ==
    \E i \in 1..(Len(x) - 3) : \A k \in 1..4 : x[i + k - 1] \in NewsLetters[k]

IsDigit(c) == c \in {"0", "1", "2", "3", "4", "5", "6", "7", "8", "9"}

DigitVal(c) ==
    CASE c = "0" -> 0 [] c = "1" -> 1 [] c = "2" -> 2 [] c = "3" -> 3
      [] c = "4" -> 4 [] c = "5" -> 5 [] c = "6" -> 6 [] c = "7" -> 7
      [] c = "8" -> 8 [] c = "9" -> 9

-----------------------------------------------------------------------------
(* Program constants *)

\* 'https://www.nintendo.com': the origin every relative URL is resolved against
Origin ==
    <<"h","t","t","p","s",":","/","/","w","w","w",".",
      "n","i","n","t","e","n","d","o",".","c","o","m">>

NINTENDO_NEWS_URL == Origin \o <<"/","u","s","/","w","h","a","t","s","n","e","w","/">>

\* 'Read more'
ReadMore == <<"R","e","a","d"," ","m","o","r","e">>

\* 'news'
NewsWord == <<"n","e","w","s">>

\* 'Nintendo News Update', the title placeholder of the selector path
TitlePlaceholder ==
    <<"N","i","n","t","e","n","d","o"," ","N","e","w","s"," ","U","p","d","a","t","e">>

\* 'Nintendo news update', the description placeholder
DescriptionPlaceholder ==
    <<"N","i","n","t","e","n","d","o"," ","n","e","w","s"," ","u","p","d","a","t","e">>

potentialSelectors ==
    <<".WhatIsNewPage-module__item", ".news-item", ".grid-item", ".nw-c-NewsItem",
      "article", ".card", ".link-block", "li.news-list-item",
      ".NintendoCard-module__main", ".COMPT-module__tile",
      ".WhatsNewHighlightModule-module__tile">>

-----------------------------------------------------------------------------
(* fetchNintendoNews: the selector cascade *)

\* the loop without its break: the last selector with matches wins
RECURSIVE findSelectorNoBreak(_, _)
findSelectorNoBreak(d, i) ==
    IF i > Len(potentialSelectors) THEN 0
    ELSE IF findSelectorNoBreak(d, i + 1) # 0 THEN findSelectorNoBreak(d, i + 1)
    ELSE IF Len(d.matches[i]) > 0 THEN i
    ELSE 0

\* The for loop over potentialSelectors from candidate i on: the index of the
\* first selector with itemsFound > 0, or 0 when selectedSelector stays ''.
RECURSIVE findSelector(_, _)
findSelector(d, i) ==
    IF i > Len(potentialSelectors) THEN 0
    ELSE IF Len(d.matches[i]) > 0 THEN i
    ELSE findSelector(d, i + 1)

selectedSelector(d) == findSelector(d, 1)

\* if (!selectedSelector): the fallback branch is taken
usesFallback(d) == selectedSelector(d) = 0

-----------------------------------------------------------------------------
(* fetchNintendoNews: the pool of news-flavoured images *)

isNewsImage(img) ==
    /\ Truthy(img.src)
    /\ \/ lowerIncludesNews(Or(img.alt, <<>>))
       \/ lowerIncludesNews(img.parentText)
       \/ lowerIncludesNews(img.src)

poolEntry(img) ==
    [src |-> IF StartsWith(img.src, <<"/">>) THEN Origin \o img.src ELSE img.src,
     alt |-> Or(img.alt, <<>>)]

RECURSIVE allImagesFrom(_, _)
allImagesFrom(imgs, i) ==
    IF i > Len(imgs) THEN <<>>
    ELSE IF isNewsImage(imgs[i]) THEN <<poolEntry(imgs[i])>> \o allImagesFrom(imgs, i + 1)
    ELSE allImagesFrom(imgs, i + 1)

\* $('img').each(...) filling allImages
allImages(d) == allImagesFrom(d.imgs, 1)

-----------------------------------------------------------------------------
(* fetchNintendoNews: the selector path *)

nodeTitle(n) ==
    LET t1 == Trim(n.h3)
        t2 == IF Truthy(t1) THEN t1 ELSE Trim(n.h2)
        t3 == IF Truthy(t2) THEN t2 ELSE Trim(n.titleClass)
    IN  IF Truthy(t3) THEN t3 ELSE Trim(n.headingClass)

nodeLink(n) ==
    LET l1 == n.aHref
    IN  IF ~Truthy(l1) /\ n.isA THEN n.href ELSE l1

\* link && link.startsWith('/') ? `https://www.nintendo.com${link}` : link
nodeFullLink(n) ==
    LET link == nodeLink(n)
    IN  IF Truthy(link) /\ StartsWith(link, <<"/">>) THEN Origin \o link ELSE link

nodeDate(n) ==
    LET d1 == Trim(n.dateUtility)
        d2 == IF Truthy(d1) THEN d1 ELSE Trim(n.dateClass)
    IN  IF Truthy(d2) THEN d2 ELSE Trim(n.timeEl)

nodeImageUrl(n) ==
    LET i1 == n.imgSrc
        i2 == IF Truthy(i1) THEN i1 ELSE n.imageImgSrc
        i3 == IF Truthy(i2) THEN i2 ELSE n.srcset
    IN  IF Truthy(i3) /\ ~StartsWith(i3, <<"h","t","t","p">>) THEN Origin \o i3 ELSE i3

nodeDescription(n) ==
    LET d1 == Trim(n.p)
        d2 == IF Truthy(d1) THEN d1 ELSE Trim(n.descriptionClass)
    IN  IF Truthy(d2) THEN d2 ELSE Trim(n.summaryClass)

\* if (title): a node with a description only is dropped
nodeKeptTitleOnly(n) == Truthy(nodeTitle(n))

\* if (title || description)
nodeKept(n) == Truthy(nodeTitle(n)) \/ Truthy(nodeDescription(n))

nodeItem(n) ==
    [title       |-> Or(nodeTitle(n), TitlePlaceholder),
     link        |-> Or(nodeFullLink(n), NINTENDO_NEWS_URL),
     date        |-> nodeDate(n),
     imageUrl    |-> nodeImageUrl(n),
     description |-> nodeDescription(n)]

\* if (index > limit) return;
nodeProcessedOffByOne(index, lim) == index <= lim

\* if (index >= limit) return;  the callback is left, the iteration goes on
nodeProcessed(index, lim) == index < lim

\* $(selectedSelector).each((index, element) => ...), index 0-based
RECURSIVE processNodes(_, _, _)
processNodes(nodes, lim, index) ==
    IF index >= Len(nodes) THEN <<>>
    ELSE IF nodeProcessed(index, lim) /\ nodeKept(nodes[index + 1])
         THEN <<nodeItem(nodes[index + 1])>> \o processNodes(nodes, lim, index + 1)
         ELSE processNodes(nodes, lim, index + 1)

-----------------------------------------------------------------------------
(* fetchNintendoNews: the heuristic fallback path *)

\* rawTitle.match(/^(\d{2}\/\d{2}\/\d{2})/)
dateMatch(rawTitle) ==
    /\ Len(rawTitle) >= 8
    /\ IsDigit(rawTitle[1]) /\ IsDigit(rawTitle[2]) /\ rawTitle[3] = "/"
    /\ IsDigit(rawTitle[4]) /\ IsDigit(rawTitle[5]) /\ rawTitle[6] = "/"
    /\ IsDigit(rawTitle[7]) /\ IsDigit(rawTitle[8])

anchorText(a) == Trim(a.text)

\* a filter that does not ask for the href
anchorKeptWithoutLink(a) ==
    Truthy(anchorText(a)) /\ Includes(anchorText(a), ReadMore)

\* if (text && link && text.includes('Read more'))
anchorKept(a) ==
    Truthy(anchorText(a)) /\ Truthy(a.href) /\ Includes(anchorText(a), ReadMore)

anchorRawTitle(a) == Trim(RemoveFirst(anchorText(a), ReadMore))

anchorDate(a) ==
    IF dateMatch(anchorRawTitle(a)) THEN SubSeq(anchorRawTitle(a), 1, 8) ELSE <<>>

\* a title that keeps the date token
anchorTitleKeepingDate(a) == anchorRawTitle(a)

anchorTitle(a) ==
    IF dateMatch(anchorRawTitle(a))
    THEN Trim(SubstringFrom(anchorRawTitle(a), Len(anchorDate(a))))
    ELSE anchorRawTitle(a)

\* for (let i = 0; i < 3 && !imageUrl; i++): a.anc[i + 1] is the first img inside
\* the ancestor i + 1 levels above the anchor (NoImg when it has none); an anchor
\* with fewer ancestors has a shorter a.anc.
NoImg == [found |-> FALSE, src |-> Undefined, dataSrc |-> Undefined]

\* a loop that climbs four levels
RECURSIVE ancestorImageFourLevels(_, _, _)
ancestorImageFourLevels(a, i, imageUrl) ==
    IF i >= 4 \/ Truthy(imageUrl) THEN imageUrl
    ELSE IF i + 1 <= Len(a.anc) /\ a.anc[i + 1].found
         THEN ancestorImageFourLevels(a, i + 1, Or(a.anc[i + 1].src, a.anc[i + 1].dataSrc))
         ELSE ancestorImageFourLevels(a, i + 1, imageUrl)

RECURSIVE ancestorImage(_, _, _)
ancestorImage(a, i, imageUrl) ==
    IF i >= 3 \/ Truthy(imageUrl) THEN imageUrl
    ELSE IF i + 1 <= Len(a.anc) /\ a.anc[i + 1].found
         THEN ancestorImage(a, i + 1, Or(a.anc[i + 1].src, a.anc[i + 1].dataSrc))
         ELSE ancestorImage(a, i + 1, imageUrl)

\* the predicate of allImages.find(...)
imageMatches(img, title) ==
    \/ Truthy(img.alt) /\ Includes(title, img.alt)
    \/ Truthy(img.alt) /\ Includes(img.alt, SubstringTo(title, 20))

\* allImages.find(...): the first pool image in document order that matches
bestImageMatch(pool, title) ==
    LET hits == {i \in 1..Len(pool) : imageMatches(pool[i], title)}
    IN  IF hits = {} THEN Undefined
        ELSE pool[CHOOSE i \in hits : \A j \in hits : i <= j].src

anchorImageUrl(a, pool) ==
    LET fromAncestors == ancestorImage(a, 0, <<>>)
    IN  IF ~Truthy(fromAncestors) /\ Len(pool) > 0
           /\ bestImageMatch(pool, anchorTitle(a)) # Undefined
        THEN bestImageMatch(pool, anchorTitle(a))
        ELSE fromAncestors

\* if (fullLink && !fullLink.includes('://')) ...
anchorFullLink(a) ==
    IF Truthy(a.href) /\ ~Includes(a.href, <<":","/","/">>)
    THEN IF StartsWith(a.href, <<"/">>) THEN Origin \o a.href
         ELSE Origin \o <<"/">> \o a.href
    ELSE a.href

anchorItem(a, pool) ==
    [title       |-> anchorTitle(a),
     link        |-> anchorFullLink(a),
     date        |-> anchorDate(a),
     imageUrl    |-> anchorImageUrl(a, pool),
     description |-> DescriptionPlaceholder]

\* $('a').each(...) filling newsLinks
RECURSIVE newsLinksFrom(_, _, _)
newsLinksFrom(anchors, pool, i) ==
    IF i > Len(anchors) THEN <<>>
    ELSE IF anchorKept(anchors[i])
         THEN <<anchorItem(anchors[i], pool)>> \o newsLinksFrom(anchors, pool, i + 1)
         ELSE newsLinksFrom(anchors, pool, i + 1)

-----------------------------------------------------------------------------
(* new Date('MM/DD/YY'), as V8's legacy date parser reads three numbers *)

\* days from 1970-01-01 to the first of month m (1..12) of year y
DaysFromCivil(y, m) ==
    LET yy  == IF m <= 2 THEN y - 1 ELSE y
        era == yy \div 400
        yoe == yy - era * 400
        mp  == IF m > 2 THEN m - 3 ELSE m + 9
        doy == (153 * mp + 2) \div 5
        doe == yoe * 365 + yoe \div 4 - yoe \div 100 + doy
    IN  era * 146097 + doe - 719468

\* [valid, day]: valid = FALSE is the Invalid Date, whose time value is NaN
ParseDate(tok) ==
    LET c0 == 10 * DigitVal(tok[1]) + DigitVal(tok[2])
        c1 == 10 * DigitVal(tok[4]) + DigitVal(tok[5])
        c2 == 10 * DigitVal(tok[7]) + DigitVal(tok[8])
        ymd   == ~(c0 \in 1..31)
        year0 == IF ymd THEN c0 ELSE c2
        month == IF ymd THEN c1 ELSE c0
        day   == IF ymd THEN c2 ELSE c1
        year  == IF year0 <= 49 THEN year0 + 2000 ELSE year0 + 1900
    IN  IF month \in 1..12 /\ day \in 1..31
        THEN [valid |-> TRUE, day |-> DaysFromCivil(year, month) + day - 1]
        ELSE [valid |-> FALSE, day |-> 0]

\* the comparator of newsLinks.sort; a NaN result counts as 0 in the sort
compareItems(a, b) ==
    IF ~Truthy(a.date) THEN 1
    ELSE IF ~Truthy(b.date) THEN -1
    ELSE IF ParseDate(a.date).valid /\ ParseDate(b.date).valid
         THEN ParseDate(b.date).day - ParseDate(a.date).day
         ELSE 0

-----------------------------------------------------------------------------
(* Array.prototype.sort as V8 runs it on an array shorter than 64 elements:    *)
(* one run is counted (and reversed when strictly descending), the rest is     *)
(* inserted by binary insertion.  Indices are 0-based as in the engine.        *)

RECURSIVE runEnd(_, _, _)
runEnd(arr, idx, isDescending) ==
    IF idx >= Len(arr) THEN Len(arr)
    ELSE LET order == compareItems(arr[idx + 1], arr[idx])
         IN  IF (isDescending /\ order >= 0) \/ (~isDescending /\ order < 0)
             THEN idx
             ELSE runEnd(arr, idx + 1, isDescending)

reverseRange(arr, n) ==
    [i \in 1..Len(arr) |-> IF i <= n THEN arr[n + 1 - i] ELSE arr[i]]

RECURSIVE insertionPoint(_, _, _, _)
insertionPoint(arr, pivot, left, right) ==
    IF left >= right THEN left
    ELSE LET mid == left + (right - left) \div 2
         IN  IF compareItems(pivot, arr[mid + 1]) < 0
             THEN insertionPoint(arr, pivot, left, mid)
             ELSE insertionPoint(arr, pivot, mid + 1, right)

RECURSIVE binaryInsertionSort(_, _)
binaryInsertionSort(arr, start) ==
    IF start >= Len(arr) THEN arr
    ELSE LET pivot == arr[start + 1]
             left  == insertionPoint(arr, pivot, 0, start)
             moved == SubSeq(arr, 1, left) \o <<pivot>> \o SubSeq(arr, left + 1, start)
                        \o SubSeq(arr, start + 2, Len(arr))
         IN  binaryInsertionSort(moved, start + 1)

\* newsLinks.sort((a, b) => ...)
sortNewsLinks(arr) ==
    IF Len(arr) < 2 THEN arr
    ELSE LET isDescending == compareItems(arr[2], arr[1]) < 0
             run == runEnd(arr, 2, isDescending)
             made == IF isDescending THEN reverseRange(arr, run) ELSE arr
         IN  binaryInsertionSort(made, run)

\* Array.prototype.slice(0, n)
Slice(arr, n) == IF n >= Len(arr) THEN arr ELSE SubSeq(arr, 1, n)

\* the fallback branch: collect, sort, slice
fallbackItems(d, lim) ==
    Slice(sortNewsLinks(newsLinksFrom(d.anchors, allImages(d), 1)), lim)

\* the selector branch
selectorItems(d, lim) == processNodes(d.matches[selectedSelector(d)], lim, 0)

\* what fetchNintendoNews(limit) returns once the listing page is loaded
parseListing(d, lim) ==
    IF usesFallback(d) THEN fallbackItems(d, lim) ELSE selectorItems(d, lim)

-----------------------------------------------------------------------------
(* The listing pages the pipeline is run on *)

MaxNodes == 6      \* longest node list of a selector (more than the largest limit)
MaxAnchors == 4    \* longest anchor list of a page no selector matches

\* the choices of the count option, passed as limit
Limits == {1, 3, 5}

SeqsUpTo(S, n) == UNION {[1..k -> S] : k \in 0..n}

Zelda == <<"Z","e","l","d","a">>
PaddedMario == <<"\n"," ","M","a","r","i","o","\t">>
Blank == <<"\n"," ">>
Summary == <<"O","u","t"," ","n","o","w","."," ">>

SlashLink == <<"/","a","/","1">>
BareLink == <<"a","/","1">>
HttpsLink == <<"h","t","t","p","s",":","/","/","e","x",".","c","o","/","n">>
HttpLink == <<"h","t","t","p",":","/","/","e","x",".","c","o","/","n">>

SlashImage == <<"/","i",".","p","n","g">>
BareImage == <<"i",".","p","n","g">>
HttpsImage == <<"h","t","t","p","s",":","/","/","c","d","n","/","i",".","p","n","g">>
NewsImage == <<"/","N","e","w","s","/","j",".","p","n","g">>

D0301 == <<"0","3","/","0","1","/","2","4">>
D0215 == <<"0","2","/","1","5","/","2","4">>
D0101 == <<"0","1","/","0","1","/","2","4">>
D1231 == <<"1","2","/","3","1","/","2","3">>
D0315 == <<"0","3","/","1","5","/","2","4">>
\* month 13: new Date('13/01/24') is the Invalid Date
D1301 == <<"1","3","/","0","1","/","2","4">>

TitleSources ==
    { [h3 |-> <<>>,  h2 |-> <<>>,        titleClass |-> <<>>,  headingClass |-> <<>>],
      [h3 |-> Zelda, h2 |-> PaddedMario, titleClass |-> <<>>,  headingClass |-> <<>>],
      [h3 |-> Blank, h2 |-> PaddedMario, titleClass |-> <<>>,  headingClass |-> <<>>],
      [h3 |-> <<>>,  h2 |-> <<>>,        titleClass |-> Zelda, headingClass |-> PaddedMario],
      [h3 |-> <<>>,  h2 |-> Blank,       titleClass |-> Blank, headingClass |-> PaddedMario],
      [h3 |-> Blank, h2 |-> <<>>,        titleClass |-> <<>>,  headingClass |-> Blank] }

DescriptionSources ==
    { [p |-> <<>>,    descriptionClass |-> <<>>,  summaryClass |-> <<>>],
      [p |-> Summary, descriptionClass |-> Zelda, summaryClass |-> <<>>],
      [p |-> Blank,   descriptionClass |-> <<>>,  summaryClass |-> Summary],
      [p |-> Blank,   descriptionClass |-> Blank, summaryClass |-> <<>>] }

LinkSources ==
    { [aHref |-> Undefined, isA |-> FALSE, href |-> Undefined],
      [aHref |-> SlashLink, isA |-> FALSE, href |-> Undefined],
      [aHref |-> BareLink,  isA |-> FALSE, href |-> Undefined],
      [aHref |-> HttpsLink, isA |-> FALSE, href |-> Undefined],
      [aHref |-> <<>>,      isA |-> FALSE, href |-> Undefined],
      [aHref |-> Undefined, isA |-> TRUE,  href |-> SlashLink],
      [aHref |-> Undefined, isA |-> TRUE,  href |-> BareLink] }

ImageSources ==
    { [imgSrc |-> Undefined,  imageImgSrc |-> Undefined, srcset |-> Undefined],
      [imgSrc |-> SlashImage, imageImgSrc |-> SlashImage, srcset |-> Undefined],
      [imgSrc |-> HttpsImage, imageImgSrc |-> Undefined, srcset |-> BareImage],
      [imgSrc |-> BareImage,  imageImgSrc |-> Undefined, srcset |-> Undefined],
      [imgSrc |-> Undefined,  imageImgSrc |-> Undefined, srcset |-> SlashImage] }

DateSources ==
    { [dateUtility |-> <<>>,  dateClass |-> <<>>, timeEl |-> <<>>],
      [dateUtility |-> Blank, dateClass |-> <<>>, timeEl |-> D0301] }

\* what the queries of the selector path read off one matched element
Node(t, d, l, i, dt) ==
    [h3 |-> t.h3, h2 |-> t.h2, titleClass |-> t.titleClass, headingClass |-> t.headingClass,
     aHref |-> l.aHref, isA |-> l.isA, href |-> l.href,
     dateUtility |-> dt.dateUtility, dateClass |-> dt.dateClass, timeEl |-> dt.timeEl,
     imgSrc |-> i.imgSrc, imageImgSrc |-> i.imageImgSrc, srcset |-> i.srcset,
     p |-> d.p, descriptionClass |-> d.descriptionClass, summaryClass |-> d.summaryClass]

AllNodes ==
    { Node(t, d, l, i, dt) : t \in TitleSources, d \in DescriptionSources,
                             l \in LinkSources, i \in ImageSources, dt \in DateSources }

NoTitle == CHOOSE t \in TitleSources : t.h3 = <<>> /\ t.titleClass = <<>>
NoDescription == CHOOSE d \in DescriptionSources : d.p = <<>> /\ d.summaryClass = <<>>
NoLink == CHOOSE l \in LinkSources : l.aHref = Undefined /\ ~l.isA
NoImage == CHOOSE i \in ImageSources : i.imgSrc = Undefined /\ i.srcset = Undefined
NoDate == CHOOSE dt \in DateSources : dt.timeEl = <<>>

\* a node with neither title nor description, one with both, one with a description only
EmptyNode == Node(NoTitle, NoDescription, NoLink, NoImage, NoDate)
GoodNode ==
    Node([h3 |-> Zelda, h2 |-> PaddedMario, titleClass |-> <<>>, headingClass |-> <<>>],
         [p |-> Summary, descriptionClass |-> Zelda, summaryClass |-> <<>>],
         [aHref |-> SlashLink, isA |-> FALSE, href |-> Undefined],
         [imgSrc |-> SlashImage, imageImgSrc |-> SlashImage, srcset |-> Undefined], NoDate)
UntitledNode ==
    Node(NoTitle, [p |-> Blank, descriptionClass |-> <<>>, summaryClass |-> Summary],
         [aHref |-> BareLink, isA |-> FALSE, href |-> Undefined], NoImage, NoDate)

CoreNodes == {EmptyNode, GoodNode, UntitledNode}

NoMatches == [s \in 1..Len(potentialSelectors) |-> <<>>]


\* the text of an anchor: a date token, a title and the marker phrase
Dated(tok, title) == tok \o <<" ">> \o title \o <<" ">> \o ReadMore

NewUpdate == <<"N","e","w"," ","U","p","d","a","t","e"," ","-">>

\* the text of an anchor laid out over several lines
PaddedUpdate == <<"\n","\t">> \o Dated(D0315, NewUpdate) \o <<" ","\r","\n">>

\* what the fallback path reads off one <a>: its text, its href, and for each
\* of its ancestors the first <img> nested in it
Img(src, dataSrc) == [found |-> TRUE, src |-> src, dataSrc |-> dataSrc]

Anchor(text, href, anc) == [text |-> text, href |-> href, anc |-> anc]

\* anchors that differ in their date only, for the sort
DateTexts ==
    { Dated(D0301, Zelda), Dated(D0215, Zelda), Dated(D0101, Zelda),
      Dated(D1231, Zelda), Dated(D1301, Zelda), Zelda \o <<" ">> \o ReadMore }

SortAnchors == { Anchor(t, SlashLink, <<>>) : t \in DateTexts }

AnchorTexts ==
    { ReadMore,
      D0301 \o <<" ">> \o ReadMore,
      PaddedUpdate,
      Zelda \o <<" ">> \o ReadMore,
      ReadMore \o <<" ">> \o Zelda \o <<" ">> \o ReadMore,
      D0301 \o Zelda \o ReadMore,
      Zelda,
      <<>>,
      Blank }

AnchorHrefs == {Undefined, <<>>, SlashLink, BareLink, HttpsLink}

AncestorImages ==
    { <<>>,
      <<NoImg, NoImg, NoImg>>,
      <<Img(SlashImage, Undefined)>>,
      <<NoImg, Img(HttpsImage, Undefined), Img(SlashImage, Undefined)>>,
      <<Img(Undefined, BareImage), Img(SlashImage, Undefined)>>,
      <<Img(Undefined, Undefined), Img(BareImage, Undefined)>>,
      <<Img(Undefined, Undefined), Img(Undefined, Undefined)>>,
      <<NoImg, NoImg, Img(<<>>, <<>>)>>,
      <<NoImg, NoImg, NoImg, Img(HttpsImage, Undefined)>> }

AllAnchors ==
    { Anchor(t, h, a) : t \in AnchorTexts, h \in AnchorHrefs, a \in AncestorImages }

\* an <img> of the page: src, alt and the text of its parent
PageImg(src, alt, parentText) == [src |-> src, alt |-> alt, parentText |-> parentText]

ImagePools ==
    { <<>>,
      <<PageImg(SlashImage, Zelda, <<>>)>>,
      <<PageImg(BareImage, Undefined, <<"U+00C9"," ","N","E","W","S">>),
        PageImg(NewsImage, Zelda, <<>>),
        PageImg(HttpsImage, Zelda \o <<" ">> \o NewsWord, <<>>)>>,
      <<PageImg(Undefined, NewsWord, <<>>),
        PageImg(HttpsImage, <<"N","e","w"," ","n","e","w","s">>, <<>>)>> }

Page(matches, imgs, anchors) == [matches |-> matches, imgs |-> imgs, anchors |-> anchors]

KeptAnchor == Anchor(Dated(D0315, NewUpdate), SlashLink, <<>>)

\* pages for the cascade: up to two selectors match, in either priority order
CascadePages ==
    { Page([s \in 1..Len(potentialSelectors) |->
               IF s = i THEN li ELSE IF s = j THEN lj ELSE <<>>],
           <<>>, an) :
        i \in 1..Len(potentialSelectors), j \in 1..Len(potentialSelectors),
        li \in SeqsUpTo({GoodNode}, 2), lj \in SeqsUpTo({UntitledNode}, 1),
        an \in {<<>>, <<KeptAnchor>>} }

\* pages for the extraction loop: one selector, every list of core nodes
NodeListPages ==
    { Page([NoMatches EXCEPT ![5] = l], <<>>, <<>>) :
        l \in SeqsUpTo(CoreNodes, MaxNodes) \ {<<>>} }

\* pages for the field chains: one selector, one node of every shape
SingleNodePages ==
    { Page([NoMatches EXCEPT ![2] = <<n>>], <<>>, <<>>) : n \in AllNodes }

\* pages no selector matches: every list of dated and undated anchors
SortPages ==
    { Page(NoMatches, <<>>, l) : l \in SeqsUpTo(SortAnchors, MaxAnchors) }

\* pages no selector matches: one anchor of every shape, with every image pool
SingleAnchorPages ==
    { Page(NoMatches, pool, <<a>>) : a \in AllAnchors, pool \in ImagePools }

\* the page of the end-to-end example: one anchor "03/15/24 New Update - Read
\* more" (the hyphen stands for the dash of the example) linking to /article/1
ArticleLink == <<"/","a","r","t","i","c","l","e","/","1">>

EndToEndPage == Page(NoMatches, <<>>, <<Anchor(Dated(D0315, NewUpdate), ArticleLink, <<>>)>>)

\* pages no selector matches: anchors that are kept next to anchors without
\* the marker phrase and anchors without href
MixedAnchors ==
    { KeptAnchor, Anchor(Zelda, SlashLink, <<>>),
      Anchor(Dated(D0301, Zelda), Undefined, <<>>) }

MixedAnchorPages ==
    { Page(NoMatches, <<>>, l) : l \in SeqsUpTo(MixedAnchors, MaxAnchors) }

Pages == CascadePages \cup NodeListPages \cup SingleNodePages
            \cup SortPages \cup SingleAnchorPages
            \cup {EndToEndPage} \cup MixedAnchorPages

-----------------------------------------------------------------------------
(* The rate limiter: new Bottleneck({...}) and limiter.wrap(axios.get).      *)
(* Times are in seconds.  Timers are exact: a due timer fires before the     *)
(* clock moves on; what is due at the same instant fires in any order.       *)

NumRuns == 2     \* command handlers that can be running at once
MaxTime == 122   \* the clock stops here: two refills are seen
MaxGap == 2      \* sinceDispatch counts up to this

Runs == 1..NumRuns

minTime == 2                      \* minTime: 2000
maxConcurrent == 1                \* maxConcurrent: 1
reservoirInit == 30               \* reservoir: 30
reservoirRefreshAmount == 30      \* reservoirRefreshAmount: 30
reservoirRefreshInterval == 60    \* reservoirRefreshInterval: 60 * 1000

Max(a, b) == IF a >= b THEN a ELSE b

\* the store and queue as one value, for the steps that drain the queue
Store ==
    [queue |-> queue, reservoir |-> reservoir, running |-> running,
     nextRequestIn |-> nextRequestIn, job |-> job, at |-> at, admitted |-> admitted]

SetStore(st) ==
    /\ queue' = st.queue
    /\ reservoir' = st.reservoir
    /\ running' = st.running
    /\ nextRequestIn' = st.nextRequestIn
    /\ job' = st.job
    /\ at' = st.at
    /\ admitted' = st.admitted

\* capacity = min(maxConcurrent - running, reservoir); a job of weight 1 fits
conditionsCheckIgnoringRunning(st) == 1 <= st.reservoir

conditionsCheck(st) ==
    LET capacity == IF maxConcurrent - st.running <= st.reservoir
                    THEN maxConcurrent - st.running ELSE st.reservoir
    IN  1 <= capacity

\* a register that starts the job at once: wait = 0, minTime not added
registerIgnoringMinTime(st) ==
    LET r == Head(st.queue)
    IN  [st EXCEPT !.queue = Tail(@), !.running = @ + 1, !.reservoir = @ - 1,
                   !.nextRequestIn = 0, !.job[r] = "scheduled", !.at[r] = now,
                   !.admitted = @ + 1]

\* the head of the queue is registered: it takes a slot and a permit and is
\* scheduled wait seconds from now; the next start is minTime after this one
register(st) ==
    LET r == Head(st.queue)
        wait == st.nextRequestIn
    IN  [st EXCEPT !.queue = Tail(@), !.running = @ + 1, !.reservoir = @ - 1,
                   !.nextRequestIn = wait + minTime,
                   !.job[r] = "scheduled", !.at[r] = now + wait,
                   !.admitted = @ + 1]

\* _drainAll: register queued jobs for as long as the head fits
RECURSIVE drainAll(_)
drainAll(st) ==
    IF st.queue # <<>> /\ conditionsCheck(st) THEN drainAll(register(st)) ELSE st

\* limitedAxios.get(url) is called by run r: the job is queued, the queue drained
submit(st, r) ==
    drainAll([st EXCEPT !.queue = Append(@, r), !.job[r] = "queued"])

\* a completion that keeps the slot
freeKeepingSlot(st, r) ==
    drainAll([st EXCEPT !.job[r] = "none"])

\* the GET of run r settled: its slot is freed, the queue drained
free(st, r) ==
    drainAll([st EXCEPT !.running = @ - 1, !.job[r] = "none"])

\* a refill that also gives up the GETs in flight
refillExpiringRunning(st) ==
    drainAll([st EXCEPT !.reservoir = reservoirRefreshAmount, !.running = 0,
                        !.admitted = 0])

\* a refill that adds the amount to what is left
refillAdding(st) ==
    drainAll([st EXCEPT !.reservoir = @ + reservoirRefreshAmount, !.admitted = 0])

\* the heartbeat's refill: the reservoir is set to the amount, the queue drained
refill(st) ==
    drainAll([st EXCEPT !.reservoir = reservoirRefreshAmount, !.admitted = 0])

ALLOWED_CHANNEL_NAMES ==
    << <<"n","i","n","t","e","n","d","o","-","n","e","w","s">>,
       <<"s","w","i","t","c","h","-","u","p","d","a","t","e","s">> ,
       <<"g","a","m","i","n","g","-","n","e","w","s">> >>

BotRole == <<"N","i","n","t","e","n","d","o"," ","N","e","w","s"," ","B","o","t">>

\* the /setupchannels commands that are followed
NumSetups == 2
SetupRuns == 1..NumSetups

\* everything of /setupchannels but the caches of the guild
NoSetup ==
    /\ interaction = [s \in SetupRuns |-> [guild |-> FALSE, administrator |-> FALSE]]
    /\ flagsDefined = FALSE
    /\ spc = [s \in SetupRuns |-> "idle"]
    /\ channelIndex = [s \in SetupRuns |-> 0]
    /\ roleAttempts = 0
    /\ attempted = <<>>
    /\ createdChannels = [s \in SetupRuns |-> <<>>]
    /\ followUps = [s \in SetupRuns |-> <<>>]
    /\ setupReply = [s \in SetupRuns |-> "none"]

\* no /setupchannels command is followed, in a guild with no role and no channel
SetupIdle == NoSetup /\ roles = <<>> /\ channels = <<>>

\* getInteger gives null for an option that was left out
Null == [present |-> FALSE]

Integer(n) == [present |-> TRUE, value |-> n]

\* no /nintendonews command is followed
NewsIdle ==
    /\ guild = FALSE
    /\ targetChannel = Null
    /\ countOption = Null
    /\ error = "none"
    /\ rpc = "idle"
    /\ itemIndex = 0
    /\ articlePage = [ok |-> FALSE]
    /\ details = [imageUrl |-> Undefined, description |-> Undefined]
    /\ gets = <<>>
    /\ sent = <<>>
    /\ reply = "none"

\* no command is followed
RunIdle == NewsIdle /\ SetupIdle

\* the limiter as constructed, no handler running
LimiterIdle ==
    /\ now = 0
    /\ reservoir = reservoirInit
    /\ running = 0
    /\ nextRequestIn = 0
    /\ lastReservoirRefresh = 0
    /\ queue = <<>>
    /\ job = [r \in Runs |-> "none"]
    /\ at = [r \in Runs |-> 0]
    /\ pc = [r \in Runs |-> "idle"]
    /\ sinceDispatch = MaxGap
    /\ admitted = 0
    /\ dispatched = 0

\* /nintendonews is invoked: the handler reaches fetchNintendoNews(count) and
\* awaits limitedAxios.get(NINTENDO_NEWS_URL)
Invoke(r) ==
    /\ pc[r] = "idle"
    /\ pc' = [pc EXCEPT ![r] = "listing"]
    /\ SetStore(submit(Store, r))
    /\ UNCHANGED <<now, lastReservoirRefresh, sinceDispatch, dispatched, listingVars, runVars, setupVars>>

\* the timer of a scheduled job fires: axios.get is called
Execute(r) ==
    /\ job[r] = "scheduled"
    /\ at[r] <= now
    /\ job' = [job EXCEPT ![r] = "executing"]
    /\ at' = [at EXCEPT ![r] = 0]
    /\ sinceDispatch' = 0
    /\ dispatched' = dispatched + 1
    /\ UNCHANGED <<now, reservoir, running, nextRequestIn, lastReservoirRefresh, queue,
                   pc, admitted, listingVars, runVars, setupVars>>

\* the listing GET settles.  With items the handler goes on to post them;
\* without (none found, or the GET failed and [] was returned) it replies and ends.
CompleteListing(r, hasItems) ==
    /\ pc[r] = "listing"
    /\ job[r] = "executing"
    /\ pc' = [pc EXCEPT ![r] = IF hasItems THEN "posting" ELSE "idle"]
    /\ SetStore(free(Store, r))
    /\ UNCHANGED <<now, lastReservoirRefresh, sinceDispatch, dispatched, listingVars, runVars, setupVars>>

\* the handler, between two GETs, reaches an item that needs its details:
\* fetchArticleDetails awaits limitedAxios.get(url)
FetchDetails(r) ==
    /\ pc[r] = "posting"
    /\ pc' = [pc EXCEPT ![r] = "details"]
    /\ SetStore(submit(Store, r))
    /\ UNCHANGED <<now, lastReservoirRefresh, sinceDispatch, dispatched, listingVars, runVars, setupVars>>

\* the details GET settles (resolved or rejected): the handler posts the item
CompleteDetails(r) ==
    /\ pc[r] = "details"
    /\ job[r] = "executing"
    /\ pc' = [pc EXCEPT ![r] = "posting"]
    /\ SetStore(free(Store, r))
    /\ UNCHANGED <<now, lastReservoirRefresh, sinceDispatch, dispatched, listingVars, runVars, setupVars>>

\* the handler has posted its last item and sent its final reply
Finish(r) ==
    /\ pc[r] = "posting"
    /\ pc' = [pc EXCEPT ![r] = "idle"]
    /\ UNCHANGED <<now, reservoir, running, nextRequestIn, lastReservoirRefresh, queue,
                   job, at, sinceDispatch, admitted, dispatched, listingVars, runVars, setupVars>>

\* the heartbeat finds now >= _lastReservoirRefresh + reservoirRefreshInterval
Heartbeat ==
    /\ now >= lastReservoirRefresh + reservoirRefreshInterval
    /\ lastReservoirRefresh' = now
    /\ SetStore(refill(Store))
    /\ dispatched' = 0
    /\ UNCHANGED <<now, pc, sinceDispatch, listingVars, runVars, setupVars>>

\* one second passes; no timer is overdue
Tick ==
    /\ now < MaxTime
    /\ \A r \in Runs : job[r] = "scheduled" => at[r] > now
    /\ now < lastReservoirRefresh + reservoirRefreshInterval
    /\ now' = now + 1
    /\ nextRequestIn' = Max(nextRequestIn - 1, 0)
    /\ sinceDispatch' = IF sinceDispatch < MaxGap THEN sinceDispatch + 1 ELSE MaxGap
    /\ UNCHANGED <<reservoir, running, lastReservoirRefresh, queue, job, at, pc,
                   admitted, dispatched, listingVars, runVars, setupVars>>

\* no call of fetchNintendoNews is followed in the limiter's specification
ListingIdle ==
    /\ doc = Page(NoMatches, <<>>, <<>>)
    /\ limit = 5
    /\ phase = "idle"
    /\ selector = 0
    /\ path = "none"
    /\ newsItems = <<>>

InitLimiter == ListingIdle /\ LimiterIdle /\ RunIdle

NextLimiter ==
    \/ \E r \in Runs : Invoke(r)
    \/ \E r \in Runs : Execute(r)
    \/ \E r \in Runs : \E hasItems \in BOOLEAN : CompleteListing(r, hasItems)
    \/ \E r \in Runs : FetchDetails(r)
    \/ \E r \in Runs : CompleteDetails(r)
    \/ \E r \in Runs : Finish(r)
    \/ Heartbeat
    \/ Tick

SpecLimiter == InitLimiter /\ [][NextLimiter]_vars

-----------------------------------------------------------------------------
(* fetchNintendoNews as a state machine *)

InitListing ==
    /\ doc \in Pages
    /\ limit \in Limits
    /\ phase = "fetching"
    /\ selector = 0
    /\ path = "none"
    /\ newsItems = <<>>
    /\ LimiterIdle
    /\ RunIdle

\* the listing GET resolves: the body of the try block runs to its return
ParseListing ==
    /\ phase = "fetching"
    /\ selector' = selectedSelector(doc)
    /\ path' = IF usesFallback(doc) THEN "fallback" ELSE "selector"
    /\ newsItems' = parseListing(doc, limit)
    /\ phase' = "returned"
    /\ UNCHANGED <<doc, limit, limiterVars, runVars, setupVars>>

\* a catch block that returns what the page would have given
CatchListingPartial ==
    /\ phase = "fetching"
    /\ newsItems' = parseListing(doc, limit)
    /\ phase' = "caught"
    /\ UNCHANGED <<doc, limit, selector, path, limiterVars, runVars, setupVars>>

\* the listing GET rejects: catch (error) { return []; }
CatchListing ==
    /\ phase = "fetching"
    /\ newsItems' = <<>>
    /\ phase' = "caught"
    /\ UNCHANGED <<doc, limit, selector, path, limiterVars, runVars, setupVars>>

NextListing == ParseListing \/ CatchListing

SpecListing == InitListing /\ [][NextListing]_vars

-----------------------------------------------------------------------------
(* Properties of the listing pipeline *)

IsAbsoluteUrl(u) ==
    \/ StartsWith(u, <<"h","t","t","p","s",":","/","/">>)
    \/ StartsWith(u, <<"h","t","t","p",":","/","/">>)

Min(a, b) == IF a <= b THEN a ELSE b

\* the nodes the selected selector matched
matchedNodes == IF selector = 0 THEN <<>> ELSE doc.matches[selector]

\* C1: the listing pipeline never returns more than limit items, on the
\* selector path and on the fallback path, for every page and every limit.
C1_AtMostLimit ==
    phase \in {"returned", "caught"} => Len(newsItems) <= limit

\* limit = 5, six matched nodes, five items returned
C1_Witness ==
    /\ phase = "returned" /\ path = "selector" /\ limit = 5
    /\ Len(matchedNodes) > limit
    /\ Len(newsItems) = limit

\* C2: the selector used is the first of the priority list with a match count
\* above zero, whatever the lower-priority counts; the fallback path is taken
\* exactly when every candidate has zero matches.
C2_FirstMatchingSelector ==
    phase = "returned" =>
        /\ selector # 0 =>
              /\ Len(doc.matches[selector]) > 0
              /\ \A t \in 1..(selector - 1) : Len(doc.matches[t]) = 0
        /\ selector = 0 <=> \A t \in 1..Len(potentialSelectors) : Len(doc.matches[t]) = 0
        /\ path = "fallback" <=> \A t \in 1..Len(potentialSelectors) : Len(doc.matches[t]) = 0
        /\ path = "selector" <=> selector # 0

\* a lower-priority selector matches more nodes than the one used
C2_Witness ==
    /\ phase = "returned" /\ selector # 0
    /\ \E t \in (selector + 1)..Len(potentialSelectors) :
          Len(doc.matches[t]) > Len(doc.matches[selector])

\* the matched nodes with a non-empty derived title or description
retainable == {i \in 1..Len(matchedNodes) :
                  nodeTitle(matchedNodes[i]) # <<>> \/ nodeDescription(matchedNodes[i]) # <<>>}

\* C3: a dropped node does not count toward limit: when the matched list holds
\* at least limit nodes with a non-empty title or description, exactly limit
\* items are returned.
C3_DroppedNotCounted ==
    (phase = "returned" /\ path = "selector" /\ Cardinality(retainable) >= limit)
        => Len(newsItems) = limit

\* the nodes the loop processed: those at index < limit
processedNodes == {i \in 1..Len(matchedNodes) : i <= limit}

\* the k-th processed node that produces an item
RECURSIVE producing(_, _)
producing(k, from) ==
    IF from \in processedNodes \cap retainable
    THEN IF k = 1 THEN from ELSE producing(k - 1, from + 1)
    ELSE producing(k, from + 1)

\* C4: on the selector path a processed node produces an item if and only if
\* its derived title or description is non-empty (the items are those nodes'
\* titles and descriptions, in order); no item has both an empty extracted
\* title and an empty description.
C4_ItemIffTitleOrDescription ==
    (phase = "returned" /\ path = "selector") =>
        /\ Len(newsItems) = Cardinality(processedNodes \cap retainable)
        /\ \A k \in 1..Len(newsItems) :
              LET n == matchedNodes[producing(k, 1)]
              IN  /\ newsItems[k].description = nodeDescription(n)
                  /\ newsItems[k].title =
                        IF nodeTitle(n) # <<>> THEN nodeTitle(n) ELSE TitlePlaceholder
                  /\ newsItems[k].title # TitlePlaceholder \/ newsItems[k].description # <<>>

\* a processed node was dropped and another gave an item with the placeholder title
C4_Witness ==
    /\ phase = "returned" /\ path = "selector"
    /\ Len(newsItems) < Cardinality(processedNodes)
    /\ \E k \in 1..Len(newsItems) : newsItems[k].title = TitlePlaceholder

\* C5: the link of every returned item is an absolute URL, on both paths.
C5_LinkAbsolute ==
    phase = "returned" => \A k \in 1..Len(newsItems) : IsAbsoluteUrl(newsItems[k].link)

\* C6: every returned item has a non-empty title, on both paths.
C6_TitleNonEmpty ==
    phase = "returned" => \A k \in 1..Len(newsItems) : Truthy(newsItems[k].title)

\* the date tokens of the anchors the fallback path keeps, in document order
keptDates ==
    LET kept == SelectSeq(doc.anchors, anchorKept)
    IN  [i \in 1..Len(kept) |-> anchorDate(kept[i])]

returnedDates == [i \in 1..Len(newsItems) |-> newsItems[i].date]

Count(seq, v) == Cardinality({i \in 1..Len(seq) : seq[i] = v})

\* x comes strictly before y in "newest first, undated last": x is dated and y
\* is not, or both are calendar dates and x is the later one
Before(x, y) ==
    \/ x # <<>> /\ y = <<>>
    \/ /\ x # <<>> /\ y # <<>>
       /\ ParseDate(x).valid /\ ParseDate(y).valid
       /\ ParseDate(x).day > ParseDate(y).day

\* the returned items are in order, and they are the first items of that order:
\* no anchor left out comes strictly before a returned one
NewestFirstThenTruncated ==
    /\ \A i, j \in 1..Len(returnedDates) :
          i < j => ~Before(returnedDates[j], returnedDates[i])
    /\ Len(newsItems) = Min(limit, Len(keptDates))
    /\ \A i \in 1..Len(returnedDates) :
          Count(returnedDates, returnedDates[i]) <= Count(keptDates, returnedDates[i])
    /\ \A i \in 1..Len(keptDates) :
          Count(keptDates, keptDates[i]) > Count(returnedDates, keptDates[i])
             => \A j \in 1..Len(returnedDates) : ~Before(keptDates[i], returnedDates[j])

\* C7: on the fallback path the items are sorted by calendar date, newest
\* first, undated items last, and only then truncated to limit.
C7_SortedNewestFirst ==
    (phase = "returned" /\ path = "fallback") => NewestFirstThenTruncated

-----------------------------------------------------------------------------
(* Properties of the rate limiter *)

\* a step in which the GET of some run is started
Dispatch == \E r \in Runs : job[r] = "scheduled" /\ job'[r] = "executing"

\* C8: between any two consecutive request dispatches at least 2 seconds
\* elapse, whichever runs issued them.
C8_MinimumSpacing == [][Dispatch => sinceDispatch >= 2]_vars

\* second 2: one run has its listing and is posting, the listing GET of
\* another run is started, 2 seconds after the first GET
C8_Witness ==
    /\ now = 2 /\ dispatched = 2 /\ sinceDispatch = 0
    /\ \E r \in Runs : pc[r] = "listing" /\ job[r] = "executing"
    /\ \E r \in Runs : pc[r] = "posting"

\* C9: at most one GET is in flight at any instant, also with several runs
\* going on at once.
C9_OneInFlight == Cardinality({r \in Runs : job[r] = "executing"}) <= 1

\* the GET of one run is in flight while the GET of another run waits in the queue
C9_Witness ==
    \E r1, r2 \in Runs :
        /\ job[r1] = "executing" /\ pc[r1] = "details"
        /\ job[r2] = "queued" /\ pc[r2] = "listing"

\* C10, as the claim words it: the bucket holds 30 permits and is refilled to
\* 30 every 60 seconds; the permit count stays within 0..30; no more than 30
\* GETs are started between two consecutive refills; a GET that finds the
\* bucket empty stays queued, it is not failed: a run waits for a GET exactly
\* while the limiter holds its job, and a job not yet admitted is in the queue.
C10_TokenBucket ==
    /\ reservoir \in 0..30
    /\ dispatched <= 30
    /\ lastReservoirRefresh # 0 => lastReservoirRefresh >= 60
    /\ now >= 60 => now - lastReservoirRefresh <= 60
    /\ \A r \in Runs :
          /\ pc[r] \in {"listing", "details"} <=> job[r] # "none"
          /\ job[r] = "queued" <=> \E i \in 1..Len(queue) : queue[i] = r

\* C10, amended: the bucket holds 30 permits and is refilled to 30 every 60
\* seconds; the permit count stays within 0..30 and is 30 less one per GET
\* admitted since the refill, so no more than 30 GETs are admitted between two
\* consecutive refills.  A GET takes its permit when it is admitted, up to
\* minTime before it is started: the GETs started between two consecutive
\* refills are those admitted between them and at most one admitted before,
\* no more than 31; before the first refill no more than 30 are started, so
\* the 31st GET is started at second 60 or later.  A GET that finds the bucket
\* empty stays queued, it is not failed.
C10_TokenBucketAdmissions ==
    /\ reservoir \in 0..30
    /\ reservoir = 30 - admitted
    /\ dispatched <= admitted + (IF lastReservoirRefresh = 0 THEN 0 ELSE 1)
    /\ (dispatched > 30 \/ lastReservoirRefresh # 0) => now >= 60
    /\ lastReservoirRefresh # 0 => lastReservoirRefresh >= 60
    /\ now >= 60 => now - lastReservoirRefresh <= 60
    /\ \A r \in Runs :
          /\ pc[r] \in {"listing", "details"} <=> job[r] # "none"
          /\ job[r] = "queued" <=> \E i \in 1..Len(queue) : queue[i] = r

\* second 120, the refill of second 60 behind and the next one due: 31 GETs
\* were started since the refill, the first of them admitted before it, all 30
\* permits are used and a further GET waits in the queue
C10_Witness ==
    /\ now = 120 /\ lastReservoirRefresh = 60
    /\ admitted = 30 /\ reservoir = 0 /\ dispatched = 31
    /\ queue # <<>>

-----------------------------------------------------------------------------
(* fetchArticleDetails *)

\* what the queries of fetchArticleDetails read off the article response: attr()
\* gives undefined for a missing element or attribute, text() gives '' for no
\* element; ok is FALSE when the GET rejected or load() threw
ArticleResponse(ok, ogI, twI, hdI, ctI, fsI, ogD, mtD, ctP) ==
    [ok |-> ok, ogImage |-> ogI, twitterImage |-> twI, headerImg |-> hdI,
     contentImg |-> ctI, firstImg |-> fsI,
     ogDescription |-> ogD, metaDescription |-> mtD, contentP |-> ctP]

Rejected ==
    ArticleResponse(FALSE, Undefined, Undefined, Undefined, Undefined, Undefined,
                    Undefined, Undefined, <<>>)

\* imageUrl: the first truthy of the five queries (undefined when none is)
articleImageTwitterFirst(page) ==
    Or(page.twitterImage,
       Or(page.ogImage, Or(page.headerImg, Or(page.contentImg, page.firstImg))))

articleImage(page) ==
    Or(page.ogImage,
       Or(page.twitterImage, Or(page.headerImg, Or(page.contentImg, page.firstImg))))

\* description: the first truthy of the three queries, else ''
articleDescription(page) ==
    Or(page.ogDescription, Or(page.metaDescription, Or(Trim(page.contentP), <<>>)))

\* the return of the try block
parseDetails(page) ==
    [imageUrl |-> Or(articleImage(page), <<>>),
     description |-> Or(articleDescription(page), DescriptionPlaceholder)]

\* the return of the catch block
catchDetails == [imageUrl |-> <<>>, description |-> DescriptionPlaceholder]

\* a catch block that returns an object without the two fields
fetchArticleDetailsEmptyOnError(resp) ==
    IF resp.ok THEN parseDetails(resp)
    ELSE [imageUrl |-> Undefined, description |-> Undefined]

fetchArticleDetails(resp) ==
    IF resp.ok THEN parseDetails(resp) ELSE catchDetails

\* article pages: every query gives undefined, '' or a value of its own
OgPng == <<"o","g",".","p","n","g">>
TwPng == <<"t","w",".","p","n","g">>
HdPng == <<"h","d",".","p","n","g">>
CtPng == <<"c","t",".","p","n","g">>
FsPng == <<"f","s",".","p","n","g">>
OgText == <<"O","g"," ","t","e","x","t">>
MetaText == <<"M","e","t","a">>
PText == <<" ","B","o","d","y","."," ">>

AttrOf(v) == {Undefined, <<>>, v}

ArticlePages ==
    { ArticleResponse(TRUE, ogI, twI, hdI, ctI, fsI, ogD, mtD, ctP) :
        ogI \in AttrOf(OgPng), twI \in AttrOf(TwPng), hdI \in AttrOf(HdPng),
        ctI \in AttrOf(CtPng), fsI \in AttrOf(FsPng),
        ogD \in AttrOf(OgText), mtD \in AttrOf(MetaText), ctP \in {<<>>, Blank, PText} }

NoResponse == [ok |-> FALSE]
NoDetails == [imageUrl |-> Undefined, description |-> Undefined]

\* fetchArticleDetails on its own: one call, on any article response
InitDetails ==
    /\ ListingIdle /\ LimiterIdle /\ SetupIdle
    /\ guild = FALSE
    /\ targetChannel = Null
    /\ countOption = Null
    /\ error = "none"
    /\ rpc = "details"
    /\ itemIndex = 0
    /\ articlePage \in ArticlePages \cup {Rejected}
    /\ details = NoDetails
    /\ gets = <<>>
    /\ sent = <<>>
    /\ reply = "none"

ReturnDetails ==
    /\ rpc = "details"
    /\ itemIndex = 0
    /\ details' = fetchArticleDetails(articlePage)
    /\ rpc' = "enriched"
    /\ UNCHANGED <<guild, targetChannel, countOption, error, itemIndex, articlePage, gets, sent, reply, listingVars, limiterVars, setupVars>>

NextDetails == ReturnDetails

SpecDetails == InitDetails /\ [][NextDetails]_vars

-----------------------------------------------------------------------------
(* Properties of fetchArticleDetails *)

\* the first entry of cands that is a string with at least one character
RECURSIVE FirstNonEmpty(_, _)
FirstNonEmpty(cands, default) ==
    IF cands = <<>> THEN default
    ELSE IF Head(cands) # Undefined /\ Len(Head(cands)) > 0 THEN Head(cands)
    ELSE FirstNonEmpty(Tail(cands), default)

imageCandidates ==
    <<articlePage.ogImage, articlePage.twitterImage, articlePage.headerImg,
      articlePage.contentImg, articlePage.firstImg>>

descriptionCandidates ==
    <<articlePage.ogDescription, articlePage.metaDescription, Trim(articlePage.contentP)>>

\* C15: on an article page that was fetched and parsed, the image is the first
\* non-empty of Open-Graph image, Twitter image, article-header image, first
\* article-content image, first image of the page, and the description the
\* first non-empty of Open-Graph description, meta description, first
\* article-content paragraph; a page with none of them gives exactly
\* { imageUrl: '', description: 'Nintendo news update' }.
C15_PriorityChains ==
    (rpc = "enriched" /\ articlePage.ok) =>
        /\ details.imageUrl = FirstNonEmpty(imageCandidates, <<>>)
        /\ details.description = FirstNonEmpty(descriptionCandidates, DescriptionPlaceholder)
        /\ ( /\ \A i \in 1..5 : ~Truthy(imageCandidates[i])
             /\ \A i \in 1..3 : ~Truthy(descriptionCandidates[i]) )
           => details = [imageUrl |-> <<>>, description |-> DescriptionPlaceholder]

\* no Open-Graph image but a Twitter and a header image, no meta description
\* but a paragraph: the Twitter image and the trimmed paragraph are returned
C15_Witness ==
    /\ rpc = "enriched" /\ articlePage.ok
    /\ articlePage.ogImage = <<>> /\ articlePage.twitterImage = TwPng
    /\ articlePage.headerImg = HdPng
    /\ articlePage.ogDescription = Undefined /\ articlePage.metaDescription = <<>>
    /\ articlePage.contentP = PText
    /\ details.imageUrl = TwPng
    /\ details.description = <<"B","o","d","y",".">>

-----------------------------------------------------------------------------
(* The /nintendonews handler, from deferReply to the last reply.              *)
(* src/index.js holds an older copy of fetchNintendoNews and                  *)
(* fetchArticleDetails that calls axios.get itself (lines 24 and 54); the     *)
(* file throws while it is loaded (ApplicationCommandOptionType is not        *)
(* imported) and README text follows its code, so none of it ever runs and    *)
(* no state of the program has a GET of it.                                   *)

\* A GET as issued: limited says that it was handed to limitedAxios.get, item
\* is 0 for the listing, else the position of the item.
\* fetchNintendoNews: await limitedAxios.get(NINTENDO_NEWS_URL)
listingGet == [url |-> NINTENDO_NEWS_URL, limited |-> TRUE, item |-> 0]

\* a fetchArticleDetails that calls axios.get(url) itself
articleGetUnlimited(url, item) == [url |-> url, limited |-> FALSE, item |-> item]

\* fetchArticleDetails: await limitedAxios.get(url)
articleGet(url, item) == [url |-> url, limited |-> TRUE, item |-> item]

\* if ((!news.imageUrl || news.description === 'Nintendo news update') && news.link)
needsDetailsImageOnly(news) ==
    ~Truthy(news.imageUrl) /\ Truthy(news.link)

needsDetails(news) ==
    (~Truthy(news.imageUrl) \/ news.description = DescriptionPlaceholder)
        /\ Truthy(news.link)

\* a merge that takes the image of the article whenever it has one
mergeDetailsOverwriting(news, d) ==
    [news EXCEPT
        !.imageUrl = IF Truthy(d.imageUrl) THEN d.imageUrl ELSE @,
        !.description = IF @ = DescriptionPlaceholder /\ d.description # DescriptionPlaceholder
                        THEN d.description ELSE @]

\* the two ifs after await fetchArticleDetails(news.link)
mergeDetails(news, d) ==
    [news EXCEPT
        !.imageUrl = IF ~Truthy(@) /\ Truthy(d.imageUrl) THEN d.imageUrl ELSE @,
        !.description = IF @ = DescriptionPlaceholder /\ d.description # DescriptionPlaceholder
                        THEN d.description ELSE @]

Ellipsis == <<".", ".", ".">>
BlankLine == <<"\n", "\n">>

\* a guard that cuts at 250 characters without the ellipsis
truncateTitleNoEllipsis(title, description) ==
    IF Truthy(title) /\ Len(title) > 250
    THEN [title |-> SubstringTo(title, 250),
          description |-> SubstringFrom(title, 250) \o description]
    ELSE [title |-> title, description |-> description]

\* if (title && title.length > 250) { ... }: the title and description of the embed
truncateTitle(title, description) ==
    IF Truthy(title) /\ Len(title) > 250
    THEN LET breakPoint == IndexOf(title, <<".">>)
         IN  IF breakPoint > 10 /\ breakPoint < 240
             THEN [title |-> Trim(SubstringTo(title, breakPoint + 1)),
                   description |->
                       Trim(SubstringFrom(title, breakPoint + 1))
                           \o (IF Truthy(description) THEN BlankLine \o description ELSE <<>>)]
             ELSE [title |-> SubstringTo(title, 250) \o Ellipsis,
                   description |->
                       SubstringFrom(title, 250)
                           \o (IF Truthy(description)
                               THEN Ellipsis \o BlankLine \o description ELSE Ellipsis)]
    ELSE [title |-> title, description |-> description]

\* `${v}`: undefined is written out
Interpolate(v) == IF v = Undefined THEN <<"u","n","d","e","f","i","n","e","d">> ELSE v

\* String.prototype.split('\n')
RECURSIVE SplitLines(_)
SplitLines(s) ==
    LET i == IndexOf(s, <<"\n">>)
    IN  IF i < 0 THEN <<s>>
        ELSE <<SubstringTo(s, i)>> \o SplitLines(SubstringFrom(s, i + 1))

\* Array.prototype.join
RECURSIVE Join(_, _)
Join(ps, sep) ==
    IF ps = <<>> THEN <<>>
    ELSE IF Len(ps) = 1 THEN ps[1]
    ELSE ps[1] \o sep \o Join(Tail(ps), sep)

\* the calendar emoji (two code units) and **Published:**
Published == <<"U+D83D", "U+DCC5", " ", "*", "*", "P", "u", "b", "l", "i", "s", "h", "e", "d", ":", "*", "*", " ">>

ReadFullArticle(link) ==
    <<"[", "*", "*", "R", "e", "a", "d", " ", "t", "h", "e", " ", "f", "u", "l", "l", " ", "a", "r", "t", "i", "c", "l", "e", " ", "o", "n", " ", "N", "i", "n", "t", "e", "n", "d", "o", ".", "c", "o", "m", " ", "U+2192", "*", "*", "]", "(">>
        \o Interpolate(link) \o <<")">>

\* formattedDescription: the date line, the paragraphs of the description that
\* are not blank, the link; cut to 3950 code units when longer than 4000.
\* Undefined when the description is empty: setDescription is not called.
formatDescription(news, description) ==
    LET dateLine == IF Truthy(news.date) THEN Published \o news.date \o BlankLine ELSE <<>>
        paragraphs == SelectSeq(SplitLines(Trim(description)), LAMBDA q : Len(Trim(q)) > 0)
        body == dateLine \o Join(paragraphs, BlankLine) \o BlankLine
                    \o ReadFullArticle(news.link)
    IN  IF ~Truthy(description) THEN Undefined
        ELSE IF Len(body) > 4000
             THEN SubstringTo(body, 3950) \o Ellipsis \o BlankLine \o ReadFullArticle(news.link)
             ELSE body

\* the embed sent for news: setTitle, setURL, setDescription and setImage;
\* a field that is not set is Undefined
newsEmbed(news) ==
    LET guarded == truncateTitle(news.title, news.description)
    IN  [title |-> guarded.title,
         url |-> news.link,
         description |-> formatDescription(news, guarded.description),
         image |-> IF Truthy(news.imageUrl) THEN news.imageUrl ELSE Undefined]

\* the pages and article responses the handler is run on
MaxRunItems == 2   \* longest node or anchor list of these pages

Mario == <<"M","a","r","i","o">>

RunNode(title, description, link, image) ==
    Node([h3 |-> title, h2 |-> <<>>, titleClass |-> <<>>, headingClass |-> <<>>],
         [p |-> description, descriptionClass |-> <<>>, summaryClass |-> <<>>],
         [aHref |-> link, isA |-> FALSE, href |-> Undefined],
         [imgSrc |-> image, imageImgSrc |-> Undefined, srcset |-> Undefined], NoDate)

\* nodes with and without an image, with a description, the placeholder text
\* or none; a node with no title and no link; a node that is dropped
RunNodes ==
    { RunNode(Zelda, d, SlashLink, i) :
        d \in {Summary, DescriptionPlaceholder, <<>>}, i \in {Undefined, SlashImage} }
    \cup { RunNode(Mario, DescriptionPlaceholder, HttpsLink, Undefined),
           RunNode(Mario, Summary, HttpsLink, HttpsImage),
           RunNode(<<>>, Summary, Undefined, Undefined),
           EmptyNode }

RunAnchors ==
    { KeptAnchor,
      Anchor(Dated(D0301, Zelda), BareLink, <<Img(HttpsImage, Undefined)>>),
      Anchor(ReadMore, SlashLink, <<>>) }

\* a title of length len with a period at each position of periods and a
\* space at each position of spaces (positions count from 0)
LongTitle(len, periods, spaces) ==
    [i \in 1..len |-> IF (i - 1) \in periods THEN "."
                      ELSE IF (i - 1) \in spaces THEN " " ELSE "a"]

LongTitles ==
    { LongTitle(260, {}, {}), LongTitle(260, {120}, {}), LongTitle(260, {120}, {121, 122}),
      LongTitle(260, {120, 200}, {}), LongTitle(260, {5, 120}, {}),
      LongTitle(260, {10}, {}), LongTitle(260, {11}, {}), LongTitle(260, {239}, {}),
      LongTitle(260, {240}, {}), LongTitle(260, {245}, {}), LongTitle(260, {259}, {}),
      LongTitle(251, {}, {}), LongTitle(251, {120}, {}),
      LongTitle(250, {}, {}), LongTitle(250, {120}, {}), LongTitle(249, {120}, {}) }

LongTitleNodes ==
    { RunNode(t, d, SlashLink, i) :
        t \in LongTitles,
        d \in {Summary, DescriptionPlaceholder, <<>>}, i \in {SlashImage} }

\* listings of three to MaxNodes articles that need no details
CountPages ==
    { Page([NoMatches EXCEPT ![2] = [i \in 1..n |-> RunNode(Mario, Summary, HttpsLink, HttpsImage)]],
           <<>>, <<>>) : n \in 3..MaxNodes }

RunPages ==
    { Page([NoMatches EXCEPT ![2] = l], <<>>, <<>>) :
        l \in SeqsUpTo(RunNodes, MaxRunItems) \ {<<>>} }
    \cup CountPages
    \cup { Page([NoMatches EXCEPT ![5] = <<n>>], <<>>, <<>>) : n \in LongTitleNodes }
    \cup { Page(NoMatches, <<>>, l) : l \in SeqsUpTo(RunAnchors, MaxRunItems) }

RunResponses ==
    { Rejected,
      ArticleResponse(TRUE, Undefined, Undefined, Undefined, Undefined, Undefined,
                      Undefined, Undefined, <<>>),
      ArticleResponse(TRUE, OgPng, TwPng, Undefined, Undefined, FsPng,
                      OgText, MetaText, PText),
      ArticleResponse(TRUE, Undefined, <<>>, Undefined, Undefined, FsPng,
                      Undefined, Undefined, Blank),
      ArticleResponse(TRUE, <<>>, Undefined, Undefined, Undefined, Undefined,
                      <<>>, MetaText, <<>>) }

\* a loop that visits the items last to first
newsPositionBackwards(items, step) == Len(items) - step + 1

\* for (const news of newsItems): the position of news at the step-th turn
newsPosition(items, step) == step

\* the values the count option of /nintendonews can have: one of its choices, or none
CountOptions == {Null} \cup {Integer(n) : n \in Limits}

\* a default of 5 for an option that was left out
countOfDefaultFive(option) ==
    IF option # Null /\ option.value # 0 THEN option.value ELSE 5

\* const count = interaction.options.getInteger('count') || 3
countOf(option) ==
    IF option # Null /\ option.value # 0 THEN option.value ELSE 3

\* the channel a guild's cache holds: its name and its type, 0 for a text channel
Channel(name, type) == [name |-> name, type |-> type]

\* interaction.channel, the channel the command was typed in
InteractionChannel == [current |-> TRUE]

\* the allowed names that a text channel of the cache has, by position
allowedFound(cache) ==
    { i \in 1..Len(ALLOWED_CHANNEL_NAMES) :
        \E k \in 1..Len(cache) :
            cache[k].name = ALLOWED_CHANNEL_NAMES[i] /\ cache[k].type = 0 }

\* for (const allowedChannel of ALLOWED_CHANNEL_NAMES) { cache.find(...); break }:
\* the first text channel that has the first allowed name found, or Null
foundChannel(cache) ==
    IF allowedFound(cache) = {} THEN Null
    ELSE LET i == CHOOSE j \in allowedFound(cache) : \A l \in allowedFound(cache) : j <= l
             k == CHOOSE m \in 1..Len(cache) :
                     /\ cache[m].name = ALLOWED_CHANNEL_NAMES[i] /\ cache[m].type = 0
                     /\ \A l \in 1..(m - 1) :
                            ~(cache[l].name = ALLOWED_CHANNEL_NAMES[i] /\ cache[l].type = 0)
         IN  cache[k]

\* what guild.members.me.permissions gives for ManageChannels: the bot has it,
\* lacks it, or the read throws (members.me is null)
ManagePermissions == {"has", "lacks", "throws"}

\* what targetChannel.permissionsFor(client.user) gives for SendMessages and
\* EmbedLinks: both granted, one missing (or no permissions at all), or the
\* call throws (no such method on the channel, or no channel)
SendPermissions == {"granted", "missing", "throws"}

\* the try block of the permission check: a missing permission is answered and
\* the handler returns; an exception is logged and the handler goes on
afterPermissionCheck(perm) == IF perm = "missing" THEN "refuse send" ELSE "start"

\* the channel caches a /nintendonews command is run on: no channel; a voice
\* channel that has the first allowed name and a text channel that has the second
RunChannels ==
    { <<>>,
      << Channel(ALLOWED_CHANNEL_NAMES[1], 2), Channel(ALLOWED_CHANNEL_NAMES[2], 0) >> }

\* /nintendonews arrives, in a server or not, and the handler awaits deferReply
InitRun ==
    /\ doc \in RunPages
    /\ countOption \in CountOptions
    /\ limit = countOf(countOption)
    /\ guild \in BOOLEAN
    /\ channels \in IF guild THEN RunChannels ELSE {<<>>}
    /\ roles = <<>>
    /\ NoSetup
    /\ targetChannel = Null
    /\ phase = "idle"
    /\ selector = 0
    /\ path = "none"
    /\ newsItems = <<>>
    /\ LimiterIdle
    /\ rpc = "defer"
    /\ itemIndex = 0
    /\ articlePage = NoResponse
    /\ details = NoDetails
    /\ gets = <<>>
    /\ sent = <<>>
    /\ reply = "none"
    /\ error = "none"

\* await interaction.deferReply(), before the try block: it resolves and the
\* first editReply is awaited, or it rejects and so does the handler
Defer(ok) ==
    /\ rpc = "defer"
    /\ reply' = IF ok THEN "deferred" ELSE reply
    /\ rpc' = IF ok THEN "announce" ELSE "rejected"
    /\ UNCHANGED <<guild, targetChannel, countOption, error, itemIndex, articlePage,
                   details, gets, sent, listingVars, limiterVars, setupVars>>

\* await editReply(Fetching ...) of the if (count > 3), then the search for a
\* channel up to the next await: the creation of a channel, the answer to a
\* missing permission, or the editReply before fetchNintendoNews.  The reply
\* rejected, the catch of the handler awaits its own reply
Announce(ok, manage, perm) ==
    /\ rpc = "announce"
    /\ IF ~ok
       THEN /\ error' = "editReply"
            /\ rpc' = "catch"
            /\ UNCHANGED <<reply, targetChannel>>
       ELSE /\ error' = error
            /\ reply' = IF countOf(countOption) > 3 THEN "fetching count" ELSE "fetching null"
            /\ IF ~guild
               THEN /\ targetChannel' = InteractionChannel
                    /\ rpc' = afterPermissionCheck(perm)
               ELSE IF foundChannel(channels) # Null
               THEN /\ targetChannel' = foundChannel(channels)
                    /\ rpc' = afterPermissionCheck(perm)
               ELSE /\ targetChannel' = targetChannel
                    /\ rpc' = CASE manage = "has" -> "create"
                                [] manage = "lacks" -> "refuse create"
                                [] OTHER -> "create failed"
    /\ UNCHANGED <<guild, countOption, itemIndex, articlePage,
                   details, gets, sent, listingVars, limiterVars, setupVars>>

\* await editReply(I don't have permission to create channels ...); return.
\* The reply rejected, the catch of the creation awaits its reply
RefuseCreate(ok) ==
    /\ rpc = "refuse create"
    /\ reply' = IF ok THEN "no create permission" ELSE reply
    /\ rpc' = IF ok THEN "done" ELSE "create failed"
    /\ UNCHANGED <<guild, targetChannel, countOption, error, itemIndex, articlePage,
                   details, gets, sent, listingVars, limiterVars, setupVars>>

\* targetChannel = await interaction.guild.channels.create({ name:
\* ALLOWED_CHANNEL_NAMES[0], type: 0, ... }), then editReply(Created ...) is
\* awaited; the creation rejected, the catch of the creation awaits its reply
CreateChannel(ok) ==
    /\ rpc = "create"
    /\ IF ok
       THEN /\ channels' = Append(channels, Channel(ALLOWED_CHANNEL_NAMES[1], 0))
            /\ targetChannel' = Channel(ALLOWED_CHANNEL_NAMES[1], 0)
            /\ rpc' = "created"
       ELSE /\ UNCHANGED <<channels, targetChannel>>
            /\ rpc' = "create failed"
    /\ UNCHANGED <<guild, countOption, error, itemIndex, articlePage,
                   details, gets, sent, reply, listingVars, limiterVars, setupLocal>>

\* await editReply(Created new channel ...), then the permission check; the
\* reply rejected, the catch of the creation awaits its reply
Created(ok, perm) ==
    /\ rpc = "created"
    /\ reply' = IF ok THEN "created" ELSE reply
    /\ rpc' = IF ok THEN afterPermissionCheck(perm) ELSE "create failed"
    /\ UNCHANGED <<guild, targetChannel, countOption, error, itemIndex, articlePage,
                   details, gets, sent, listingVars, limiterVars, setupVars>>

\* catch (createError): await editReply(Failed to create a channel ...), then
\* targetChannel = interaction.channel and the permission check; the reply
\* rejected, the catch of the handler awaits its own reply
CreateFailed(ok, perm) ==
    /\ rpc = "create failed"
    /\ IF ok
       THEN /\ reply' = "create failed"
            /\ targetChannel' = InteractionChannel
            /\ rpc' = afterPermissionCheck(perm)
            /\ error' = error
       ELSE /\ UNCHANGED <<reply, targetChannel>>
            /\ rpc' = "catch"
            /\ error' = "editReply"
    /\ UNCHANGED <<guild, countOption, itemIndex, articlePage,
                   details, gets, sent, listingVars, limiterVars, setupVars>>

\* await editReply(I don't have permission to send messages ...); return.  The
\* reply rejected, catch (err) logs it and the handler goes on
RefuseSend(ok) ==
    /\ rpc = "refuse send"
    /\ reply' = IF ok THEN "no send permission" ELSE reply
    /\ rpc' = IF ok THEN "done" ELSE "start"
    /\ UNCHANGED <<guild, targetChannel, countOption, error, itemIndex, articlePage,
                   details, gets, sent, listingVars, limiterVars, setupVars>>

\* await editReply(Fetching Nintendo news... This will be posted in ...), then
\* fetchNintendoNews(count) is called and its listing GET issued; the reply
\* rejected, the catch of the handler awaits its own reply
Start(ok) ==
    /\ rpc = "start"
    /\ IF ok
       THEN /\ reply' = "fetching"
            /\ phase' = "fetching"
            /\ gets' = Append(gets, listingGet)
            /\ rpc' = "fetching"
            /\ error' = error
       ELSE /\ UNCHANGED <<reply, phase, gets>>
            /\ rpc' = "catch"
            /\ error' = "editReply"
    /\ UNCHANGED <<guild, targetChannel, countOption, itemIndex, articlePage,
                   details, sent, doc, limit, selector, path, newsItems, limiterVars, setupVars>>

\* fetchNintendoNews returned items: await editReply(Found ... Posting to ...).
\* It resolves and the loop starts, or it rejects and the catch of the handler
\* awaits its own reply
Found(ok) ==
    /\ rpc = "fetching" /\ phase \in {"returned", "caught"}
    /\ Len(newsItems) > 0
    /\ IF ok
       THEN /\ reply' = "found"
            /\ itemIndex' = 1
            /\ rpc' = "item"
            /\ error' = error
       ELSE /\ UNCHANGED <<reply, itemIndex>>
            /\ rpc' = "catch"
            /\ error' = "editReply"
    /\ UNCHANGED <<guild, targetChannel, countOption, articlePage, details, gets, sent,
                   listingVars, limiterVars, setupVars>>

\* fetchNintendoNews returned []: await editReply(No Nintendo news items could
\* be found.).  It resolves and the handler returns, or it rejects and the catch
\* of the handler awaits its own reply
NoNews(ok) ==
    /\ rpc = "fetching" /\ phase \in {"returned", "caught"}
    /\ Len(newsItems) = 0
    /\ reply' = IF ok THEN "no news" ELSE reply
    /\ error' = IF ok THEN error ELSE "editReply"
    /\ rpc' = IF ok THEN "done" ELSE "catch"
    /\ UNCHANGED <<guild, targetChannel, countOption, itemIndex, articlePage, details,
                   gets, sent, listingVars, limiterVars, setupVars>>

\* the item needs no details
SkipDetails ==
    /\ rpc = "item"
    /\ ~needsDetails(newsItems[newsPosition(newsItems, itemIndex)])
    /\ rpc' = "post"
    /\ UNCHANGED <<guild, targetChannel, countOption, error, itemIndex, articlePage,
                   details, gets, sent, reply, listingVars, limiterVars, setupVars>>

\* a handler that fetches the article once for the image and once for the text
IssueDetailsTwice ==
    /\ rpc = "item"
    /\ needsDetails(newsItems[newsPosition(newsItems, itemIndex)])
    /\ gets' = gets \o
                 << articleGet(newsItems[newsPosition(newsItems, itemIndex)].link,
                        newsPosition(newsItems, itemIndex)),
                    articleGet(newsItems[newsPosition(newsItems, itemIndex)].link,
                        newsPosition(newsItems, itemIndex)) >>
    /\ rpc' = "details"
    /\ UNCHANGED <<guild, targetChannel, countOption, error, itemIndex, articlePage,
                   details, sent, reply, listingVars, limiterVars, setupVars>>

\* await fetchArticleDetails(news.link): its GET is issued
IssueDetails ==
    /\ rpc = "item"
    /\ needsDetails(newsItems[newsPosition(newsItems, itemIndex)])
    /\ gets' = Append(gets, articleGet(newsItems[newsPosition(newsItems, itemIndex)].link,
                          newsPosition(newsItems, itemIndex)))
    /\ rpc' = "details"
    /\ UNCHANGED <<guild, targetChannel, countOption, error, itemIndex, articlePage,
                   details, sent, reply, listingVars, limiterVars, setupVars>>

\* a handler that issues the article GET once more after it was rejected
ReceiveDetailsRetrying ==
    /\ rpc = "details"
    /\ itemIndex > 0
    /\ \E resp \in RunResponses :
          /\ articlePage' = resp
          /\ details' = fetchArticleDetails(resp)
          /\ newsItems' = [newsItems EXCEPT
                              ![newsPosition(newsItems, itemIndex)] =
                                  mergeDetails(@, fetchArticleDetails(resp))]
          /\ IF resp = Rejected /\ articlePage # Rejected
             THEN gets' = Append(gets, gets[Len(gets)]) /\ rpc' = "details"
             ELSE gets' = gets /\ rpc' = "post"
    /\ UNCHANGED <<guild, targetChannel, countOption, error, itemIndex, sent, reply,
                   doc, limit, phase, selector, path, limiterVars, setupVars>>

\* the GET settles, fetchArticleDetails returns and its result is merged into news
ReceiveDetails ==
    /\ rpc = "details"
    /\ itemIndex > 0
    /\ \E resp \in RunResponses :
          /\ articlePage' = resp
          /\ details' = fetchArticleDetails(resp)
          /\ newsItems' = [newsItems EXCEPT
                              ![newsPosition(newsItems, itemIndex)] =
                                  mergeDetails(@, fetchArticleDetails(resp))]
    /\ rpc' = "post"
    /\ UNCHANGED <<guild, targetChannel, countOption, error, itemIndex, gets, sent,
                   reply, doc, limit, phase, selector, path, limiterVars, setupVars>>

\* the embed is built and await targetChannel.send resolves; the loop goes on
\* with the next item or is left
Post ==
    /\ rpc = "post"
    /\ sent' = Append(sent, newsEmbed(newsItems[newsPosition(newsItems, itemIndex)]))
    /\ IF itemIndex < Len(newsItems)
       THEN /\ itemIndex' = itemIndex + 1
            /\ rpc' = "item"
       ELSE /\ itemIndex' = itemIndex
            /\ rpc' = "confirm"
    /\ UNCHANGED <<guild, targetChannel, countOption, error, articlePage, details,
                   gets, reply, listingVars, limiterVars, setupVars>>

\* after the loop: await editReply(Successfully posted ...).  It resolves and
\* the handler returns, or it rejects and the catch of the handler awaits its
\* own reply
Confirm(ok) ==
    /\ rpc = "confirm"
    /\ reply' = IF ok THEN "posted" ELSE reply
    /\ error' = IF ok THEN error ELSE "editReply"
    /\ rpc' = IF ok THEN "done" ELSE "catch"
    /\ UNCHANGED <<guild, targetChannel, countOption, itemIndex, articlePage, details,
                   gets, sent, listingVars, limiterVars, setupVars>>

\* a loop that goes on with the next item when an embed could not be sent
PostFailsSkipping ==
    /\ rpc = "post"
    /\ error' = "embed"
    /\ IF itemIndex < Len(newsItems)
       THEN /\ itemIndex' = itemIndex + 1
            /\ rpc' = "item"
       ELSE /\ itemIndex' = itemIndex
            /\ rpc' = "catch"
    /\ UNCHANGED <<guild, targetChannel, countOption, articlePage, details, gets, sent,
                   reply, listingVars, limiterVars, setupVars>>

\* building the embed throws or await targetChannel.send rejects: the loop is
\* left and the catch of the handler awaits its reply
PostFails ==
    /\ rpc = "post"
    /\ error' = "embed"
    /\ rpc' = "catch"
    /\ UNCHANGED <<guild, targetChannel, countOption, itemIndex, articlePage, details,
                   gets, sent, reply, listingVars, limiterVars, setupVars>>

\* catch (error): await editReply(Sorry, I couldn't fetch Nintendo news ...).
\* It resolves and the handler returns, or it rejects and so does the handler,
\* the reply left as it was
Sorry(ok) ==
    /\ rpc = "catch"
    /\ reply' = IF ok THEN "sorry" ELSE reply
    /\ rpc' = IF ok THEN "done" ELSE "rejected"
    /\ UNCHANGED <<guild, targetChannel, countOption, error, itemIndex, articlePage,
                   details, gets, sent, listingVars, limiterVars, setupVars>>

NextRun ==
    \/ \E ok \in BOOLEAN : Defer(ok)
    \/ \E ok \in BOOLEAN, manage \in ManagePermissions, perm \in SendPermissions :
            Announce(ok, manage, perm)
    \/ \E ok \in BOOLEAN : RefuseCreate(ok)
    \/ \E ok \in BOOLEAN : CreateChannel(ok)
    \/ \E ok \in BOOLEAN, perm \in SendPermissions : Created(ok, perm)
    \/ \E ok \in BOOLEAN, perm \in SendPermissions : CreateFailed(ok, perm)
    \/ \E ok \in BOOLEAN : RefuseSend(ok)
    \/ \E ok \in BOOLEAN : Start(ok)
    \/ ParseListing
    \/ CatchListing
    \/ \E ok \in BOOLEAN : Found(ok)
    \/ \E ok \in BOOLEAN : NoNews(ok)
    \/ SkipDetails
    \/ IssueDetails
    \/ ReceiveDetails
    \/ Post
    \/ \E ok \in BOOLEAN : Confirm(ok)
    \/ PostFails
    \/ \E ok \in BOOLEAN : Sorry(ok)

SpecRun == InitRun /\ [][NextRun]_vars

-----------------------------------------------------------------------------
(* Properties of the /nintendonews handler *)

\* C11: every GET to the site, for the listing and for every article, is
\* handed to the rate limiter: it is issued with limitedAxios.get, none with
\* axios.get itself.
C11_EveryGetThroughLimiter == \A i \in 1..Len(gets) : gets[i].limited

\* the listing GET was issued and answered, the article GET of the second item
\* is awaited after that of the first, all three through the limiter
C11_Witness ==
    /\ rpc = "details" /\ itemIndex = 2
    /\ Len(gets) = 3
    /\ gets[1] = listingGet
    /\ gets[2].item = 1 /\ gets[3].item = 2
    /\ \A i \in 1..3 : gets[i].limited

\* a step that issues a GET
IssuesGet == Len(gets') > Len(gets)

\* C12: the first GET of a run is the listing GET; an article GET is issued
\* only after the listing fetch has completed and while no other article GET
\* of the run is awaited, and the article GETs are issued in item order.
C12_SequentialFetches ==
    [][IssuesGet =>
          IF gets = <<>>
          THEN gets' = <<listingGet>>
          ELSE /\ phase \in {"returned", "caught"}
               /\ rpc # "details"
               /\ gets' = Append(gets, gets'[Len(gets')])
               /\ gets'[Len(gets')].item > gets[Len(gets)].item]_vars

\* both items of a two-item list were enriched, the second after the first
C12_Witness ==
    /\ rpc = "done" /\ Len(newsItems) = 2
    /\ Len(gets) = 3 /\ gets[2].item = 1 /\ gets[3].item = 2
    /\ gets[2].url # gets[3].url
    /\ Len(sent) = 2

\* C13: when the listing fetch or its parsing fails, fetchNintendoNews returns
\* [] and the handler's only step is the reply that no news items could be
\* found, with which it returns: nothing is sent, no embed is built, and the
\* catch of the handler is entered only when Discord rejected that very reply.
C13_ListingFailureGivesNoNews ==
    phase = "caught" =>
        /\ newsItems = <<>>
        /\ sent = <<>>
        /\ Len(gets) = 1
        /\ rpc \in {"fetching", "done", "catch", "rejected"}
        /\ error # "embed"
        /\ error = "none" =>
              /\ rpc \in {"fetching", "done"}
              /\ reply = IF rpc = "done" THEN "no news" ELSE "fetching"

C13_Witness ==
    /\ phase = "caught" /\ rpc = "done" /\ reply = "no news" /\ error = "none"
    /\ \E i \in 1..11 : doc.matches[i] # <<>>

\* C14: when the article fetch or its parsing fails, fetchArticleDetails
\* returns exactly { imageUrl: '', description: 'Nintendo news update' }, the
\* handler goes on to post the item, and no item is changed.
C14_EnricherFailureIsHarmless ==
    [][(rpc = "details" /\ rpc' # "details" /\ ~articlePage'.ok) =>
          /\ details' = [imageUrl |-> <<>>, description |-> DescriptionPlaceholder]
          /\ newsItems' = newsItems
          /\ rpc' = "post"]_vars

\* the article GET of an item without image was rejected; the item is about to be posted
C14_Witness ==
    /\ rpc = "post" /\ articlePage = Rejected
    /\ details = [imageUrl |-> <<>>, description |-> DescriptionPlaceholder]
    /\ Len(gets) = 2
    /\ ~Truthy(newsItems[itemIndex].imageUrl)

IsEmpty(v) == v = <<>> \/ v = Undefined

\* the item whose turn it is
news == newsItems[itemIndex]

\* C16: at the turn of an item, an article GET is issued for it if and only if
\* it has a link and (its image is empty or its description is the
\* placeholder); otherwise the handler goes on to post it without a GET.  No
\* other step issues an article GET.
C16_FetchIffNeeded ==
    [][/\ (IssuesGet /\ gets # <<>>) => rpc = "item"
       /\ rpc = "item" =>
            IF ~IsEmpty(news.link)
                  /\ (IsEmpty(news.imageUrl) \/ news.description = DescriptionPlaceholder)
            THEN gets' = Append(gets, [url |-> news.link, limited |-> TRUE,
                                       item |-> itemIndex])
            ELSE gets' = gets /\ rpc' = "post"]_vars

\* of two items the first had an image and a description and caused no GET,
\* the second was enriched
C16_Witness ==
    /\ rpc = "done" /\ Len(newsItems) = 2 /\ Len(sent) = 2
    /\ Len(gets) = 2 /\ gets[2].item = 2
    /\ newsItems[1].description # DescriptionPlaceholder
    /\ Truthy(newsItems[1].imageUrl)

\* C17: the merge fills the image only when the item had none, replaces the
\* description only when the item had the placeholder and the article gave
\* something else, and changes neither title, link nor date, nor another item.
C17_MergeFillsGapsOnly ==
    [][(rpc = "details" /\ rpc' # "details") =>
          LET old == newsItems[itemIndex]
              new == newsItems'[itemIndex]
          IN  /\ Len(newsItems') = Len(newsItems)
              /\ \A i \in 1..Len(newsItems) : i # itemIndex => newsItems'[i] = newsItems[i]
              /\ new.title = old.title /\ new.link = old.link /\ new.date = old.date
              /\ ~IsEmpty(old.imageUrl) => new.imageUrl = old.imageUrl
              /\ IsEmpty(old.imageUrl) =>
                    new.imageUrl = IF IsEmpty(details'.imageUrl) THEN old.imageUrl
                                   ELSE details'.imageUrl
              /\ new.description =
                    IF old.description = DescriptionPlaceholder
                          /\ details'.description # DescriptionPlaceholder
                    THEN details'.description ELSE old.description]_vars

\* an item with an image and the placeholder description was enriched from an
\* article with an image and a description: only the description was taken
C17_Witness ==
    /\ rpc = "post" /\ articlePage.ok
    /\ details = [imageUrl |-> OgPng, description |-> OgText]
    /\ news.imageUrl = Origin \o SlashImage
    /\ news.description = OgText

-----------------------------------------------------------------------------
(* Properties of the title-length guard *)

\* the positions (from 0) of the periods of t that lie between 10 and 240
suitablePeriods(t) == {q \in 11..239 : q < Len(t) /\ t[q + 1] = "."}

\* C18: a title of more than 250 characters with a period between positions
\* 10 and 240 is cut after the first such period, and the rest of the title
\* is put in front of the description, which is then not empty.
C18_PeriodSplit ==
    \A i \in 1..Len(sent) :
        LET t == newsItems[i].title
        IN  (Len(t) > 250 /\ suitablePeriods(t) # {}) =>
                LET q == CHOOSE x \in suitablePeriods(t) :
                             \A y \in suitablePeriods(t) : x <= y
                IN  /\ sent[i].title = SubSeq(t, 1, q + 1)
                    /\ Truthy(sent[i].description)
                    /\ Includes(sent[i].description, Trim(SubSeq(t, q + 2, Len(t))))

\* C19: a title of more than 250 characters with no period between positions
\* 10 and 240 is posted as its first 250 characters and an ellipsis, 253
\* characters, and the description sent has the characters from position 250
\* on, in front of the item's own description; a title of at most 250
\* characters is posted as it is.
C19_HardTruncation ==
    \A i \in 1..Len(sent) :
        LET t == newsItems[i].title
        IN  /\ Len(t) <= 250 => sent[i].title = t
            /\ (Len(t) > 250 /\ suitablePeriods(t) = {}) =>
                  /\ sent[i].title = SubSeq(t, 1, 250) \o <<".", ".", ".">>
                  /\ Len(sent[i].title) = 253
                  /\ Truthy(sent[i].description)
                  /\ Includes(sent[i].description,
                              Trim(SubSeq(t, 251, Len(t))) \o Ellipsis
                                  \o (IF Truthy(Trim(newsItems[i].description))
                                      THEN BlankLine \o Trim(newsItems[i].description)
                                      ELSE <<>>))

\* a title of 260 characters without a period was posted with 253, the last
\* ten characters leading the description
C19_Witness ==
    \E i \in 1..Len(sent) :
        /\ newsItems[i].title = LongTitle(260, {}, {})
        /\ newsItems[i].description = Trim(Summary)
        /\ Len(sent[i].title) = 253
        /\ SubSeq(sent[i].description, 1, 13) = LongTitle(10, {}, {}) \o <<".", ".", ".">>

-----------------------------------------------------------------------------
(* Properties of the heuristic date/title split *)

Digits == {"0", "1", "2", "3", "4", "5", "6", "7", "8", "9"}

\* raw starts with two digits, a slash, two digits, a slash, two digits
HasDatePrefix(raw) ==
    /\ Len(raw) >= 8
    /\ \A i \in {1, 2, 4, 5, 7, 8} : raw[i] \in Digits
    /\ raw[3] = "/" /\ raw[6] = "/"

\* the anchor text without its first "Read more", trimmed
rawTitleOf(a) == Trim(RemoveFirst(Trim(a.text), ReadMore))

\* s without any occurrence of p, the occurrences taken from left to right
RECURSIVE RemoveEvery(_, _)
RemoveEvery(s, p) ==
    LET i == IndexOf(s, p)
    IN  IF i < 0 THEN s
        ELSE SubSeq(s, 1, i) \o RemoveEvery(SubstringFrom(s, i + Len(p)), p)

\* C20, as the claim words it: every item of the heuristic path comes from a
\* kept anchor whose raw title is the anchor text with the marker phrase "Read
\* more" removed: if the raw title starts with dd/dd/dd, the item's date is
\* that token and its title the remaining text; otherwise the date is empty
\* and the title is the entire raw title.
C20_DateTitleSplitAsWorded ==
    (phase = "returned" /\ path = "fallback") =>
        \A i \in 1..Len(newsItems) :
            \E j \in 1..Len(doc.anchors) :
                LET a == doc.anchors[j]
                    raw == RemoveEvery(anchorText(a), ReadMore)
                IN  /\ anchorKept(a)
                    /\ IF HasDatePrefix(raw)
                       THEN /\ newsItems[i].date = SubSeq(raw, 1, 8)
                            /\ newsItems[i].title = SubSeq(raw, 9, Len(raw))
                       ELSE /\ newsItems[i].date = <<>>
                            /\ newsItems[i].title = raw

\* C20, amended: every item of the heuristic path comes from a kept anchor
\* whose raw title is the anchor text with the first occurrence of the marker
\* phrase "Read more" removed, trimmed: if the raw title starts with dd/dd/dd,
\* the item's date is that token and its title the rest of the raw title,
\* trimmed; otherwise the date is empty and the title is the whole raw title.
C20_DateTitleSplit ==
    (phase = "returned" /\ path = "fallback") =>
        \A i \in 1..Len(newsItems) :
            \E j \in 1..Len(doc.anchors) :
                LET a == doc.anchors[j]
                    raw == rawTitleOf(a)
                IN  /\ anchorKept(a)
                    /\ IF HasDatePrefix(raw)
                       THEN /\ newsItems[i].date = SubSeq(raw, 1, 8)
                            /\ newsItems[i].title = Trim(SubSeq(raw, 9, Len(raw)))
                       ELSE /\ newsItems[i].date = <<>>
                            /\ newsItems[i].title = raw

\* the anchor "\n\t03/15/24 New Update - Read more \r\n" gave the date 03/15/24 and
\* the title "New Update -"
C20_Witness ==
    /\ phase = "returned" /\ path = "fallback"
    /\ Len(newsItems) = 1 /\ Len(doc.anchors) = 1
    /\ doc.anchors[1].text = PaddedUpdate
    /\ newsItems[1].date = D0315
    /\ newsItems[1].title = NewUpdate

-----------------------------------------------------------------------------
(* Properties of the heuristic path, end to end *)

\* the anchor has a link target and its text contains the marker phrase
hasMarkerAndLink(a) ==
    /\ a.href # Undefined /\ a.href # <<>>
    /\ Includes(a.text, ReadMore)

markedAnchors == {j \in 1..Len(doc.anchors) : hasMarkerAndLink(doc.anchors[j])}

\* C21 as stated: the example page gives, for limit 5, exactly one item with
\* title "New Update - " (with the space before the marker), date 03/15/24
\* and link https://www.nintendo.com/article/1; on any page no selector
\* matches there is one item for every anchor with link target and marker.
C21_EndToEndFallback ==
    (phase = "returned" /\ path = "fallback") =>
        /\ (doc = EndToEndPage /\ limit = 5) =>
              /\ Len(newsItems) = 1
              /\ newsItems[1].title = NewUpdate \o <<" ">>
              /\ newsItems[1].date = D0315
              /\ newsItems[1].link = Origin \o ArticleLink
        /\ Len(newsItems) = Cardinality(markedAnchors)

\* C21, amended: the title of the example is "New Update -", trimmed; there
\* is one item for every anchor with link target and marker, up to limit
\* items, and no item comes from another anchor.
C21_EndToEndFallbackTrimmed ==
    (phase = "returned" /\ path = "fallback") =>
        /\ (doc = EndToEndPage /\ limit = 5) =>
              /\ Len(newsItems) = 1
              /\ newsItems[1].title = NewUpdate
              /\ newsItems[1].date = D0315
              /\ newsItems[1].link = Origin \o ArticleLink
        /\ Len(newsItems) = Min(limit, Cardinality(markedAnchors))
        /\ \A i \in 1..Len(newsItems) :
              \E j \in markedAnchors :
                  /\ SelectSeq(newsItems[i].date \o newsItems[i].title, LAMBDA c : c # " ")
                        = SelectSeq(rawTitleOf(doc.anchors[j]), LAMBDA c : c # " ")
                  /\ Includes(newsItems[i].link, doc.anchors[j].href)

C21_Witness ==
    /\ phase = "returned" /\ path = "fallback"
    /\ doc = EndToEndPage /\ limit = 5
    /\ Len(newsItems) = 1
    /\ newsItems[1].title = NewUpdate

\* C22: the imageUrl of every returned item is empty (or absent) or an
\* absolute URL, on the selector path and on the heuristic path.
C22_ImageUrlAbsolute ==
    phase = "returned" =>
        \A i \in 1..Len(newsItems) :
            ~Truthy(newsItems[i].imageUrl) \/ IsAbsoluteUrl(newsItems[i].imageUrl)

-----------------------------------------------------------------------------
(* Properties of a whole run of the command *)

\* the GETs of the run issued for item i (0: the listing)
getsFor(i) == {n \in 1..Len(gets) : gets[n].item = i}

\* C23: nothing is retried: the listing GET and the article GET of an item are
\* each issued at most once in a run, also after the listing fetch or an
\* article fetch has failed.
C23_NoRetries ==
    /\ Cardinality(getsFor(0)) = IF phase = "idle" THEN 0 ELSE 1
    /\ \A n \in 1..Len(gets) : Cardinality(getsFor(gets[n].item)) = 1
    /\ phase = "caught" => Len(gets) = 1

\* the article fetch of the second item was rejected and the run went on to
\* its end with the three GETs it had issued
C23_Witness ==
    /\ rpc = "done" /\ itemIndex = 2
    /\ articlePage = Rejected
    /\ Len(gets) = 3 /\ Cardinality(getsFor(2)) = 1

\* C24: there is no timeout and no cancellation: for as long as the GET of a
\* run is in flight and has not settled, the run stays where it awaits it, no
\* queued GET of any run is registered and no GET is started, whatever time
\* passes and whatever refills happen; so if it never settles, the run never
\* replies and no later GET is ever started.
C24_NoTimeout ==
    [][\A r \in Runs :
          (job[r] = "executing" /\ job'[r] = "executing") =>
              /\ ~Dispatch
              /\ pc[r] \in {"listing", "details"} /\ pc'[r] = pc[r]
              /\ \A r2 \in Runs : job[r2] = "queued" => job'[r2] = "queued"]_vars

\* a GET admitted before the refill of second 60 is still in flight at second
\* 119, and the GET of another run has stayed queued although the bucket is full
C24_Witness ==
    \E r1, r2 \in Runs :
        /\ job[r1] = "executing" /\ job[r2] = "queued"
        /\ lastReservoirRefresh = reservoirRefreshInterval
        /\ now = 2 * reservoirRefreshInterval - 1
        /\ reservoir = reservoirRefreshAmount /\ admitted = 0

\* C25: /nintendonews sends at most count embeds, where count is the value of
\* the count option (1, 3 or 5) and 3 when the option is left out.
C25_AtMostCountEmbeds ==
    LET count == IF countOption = Null THEN 3 ELSE countOption.value
    IN  /\ count \in {1, 3, 5}
        /\ Len(sent) <= count

\* the option was left out, the listing had more than three articles and
\* three embeds were sent
C25_Witness ==
    /\ countOption = Null
    /\ rpc = "done" /\ reply = "posted"
    /\ Len(matchedNodes) > 3
    /\ Len(sent) = 3

-----------------------------------------------------------------------------
(* The /setupchannels handler, for commands that arrive together *)

AllowedNames == {ALLOWED_CHANNEL_NAMES[i] : i \in 1..Len(ALLOWED_CHANNEL_NAMES)}

\* guild.roles.cache.find(role => role.name === 'Nintendo News Bot')
hasRole(cache) == \E k \in 1..Len(cache) : cache[k] = BotRole

\* guild.channels.cache.find(ch => ch.name === channelName): a channel of any type
hasChannel(cache, name) == \E k \in 1..Len(cache) : cache[k].name = name

\* the turn, from the turn `from` on, of the first name the cache has no
\* channel for; one more than the number of names if there is none
nextMissing(cache, from) ==
    IF \E i \in from..Len(ALLOWED_CHANNEL_NAMES) : ~hasChannel(cache, ALLOWED_CHANNEL_NAMES[i])
    THEN CHOOSE i \in from..Len(ALLOWED_CHANNEL_NAMES) :
            /\ ~hasChannel(cache, ALLOWED_CHANNEL_NAMES[i])
            /\ \A j \in from..(i - 1) : hasChannel(cache, ALLOWED_CHANNEL_NAMES[j])
    ELSE Len(ALLOWED_CHANNEL_NAMES) + 1

\* a call of guild.channels.create: the command that made it and the name
Attempt(s, name) == [by |-> s, name |-> name]

\* for (const channelName of ALLOWED_CHANNEL_NAMES), from the turn `from` and
\* with the cache as it is, up to the next await: guild.channels.create for the
\* first name that has no channel, or, the names used up, the last editReply
loopFrom(s, from, cache) ==
    LET i == nextMissing(cache, from)
    IN  /\ channelIndex' = [channelIndex EXCEPT ![s] = i]
        /\ IF i <= Len(ALLOWED_CHANNEL_NAMES)
           THEN /\ attempted' = Append(attempted, Attempt(s, ALLOWED_CHANNEL_NAMES[i]))
                /\ spc' = [spc EXCEPT ![s] = "create channel"]
           ELSE /\ attempted' = attempted
                /\ spc' = [spc EXCEPT ![s] = "finish"]

\* the caches the commands find: no channel; a voice channel that has the
\* second name; a text channel for every name
SetupChannels ==
    { <<>>,
      << Channel(ALLOWED_CHANNEL_NAMES[2], 2) >>,
      [i \in 1..Len(ALLOWED_CHANNEL_NAMES) |-> Channel(ALLOWED_CHANNEL_NAMES[i], 0)] }

\* /setupchannels is sent NumSetups times: each from a server or a DM, by an
\* administrator or not, to a guild that may have the role.  discord.js v14,
\* which the README names, defines PermissionsBitField.Flags and no FLAGS.
InitSetup ==
    /\ ListingIdle /\ LimiterIdle /\ NewsIdle
    /\ interaction \in [SetupRuns -> [guild : BOOLEAN, administrator : BOOLEAN]]
    /\ flagsDefined \in BOOLEAN
    /\ roles \in {<<>>, <<BotRole>>}
    /\ channels \in SetupChannels
    /\ spc = [s \in SetupRuns |-> "start"]
    /\ channelIndex = [s \in SetupRuns |-> 0]
    /\ roleAttempts = 0
    /\ attempted = <<>>
    /\ createdChannels = [s \in SetupRuns |-> <<>>]
    /\ followUps = [s \in SetupRuns |-> <<>>]
    /\ setupReply = [s \in SetupRuns |-> "none"]

\* the handler is called: outside a guild it awaits reply(This command can
\* only be used in a server!), in a guild deferReply({ ephemeral: true })
SetupStart(s) ==
    /\ spc[s] = "start"
    /\ spc' = [spc EXCEPT ![s] = IF interaction[s].guild THEN "defer" ELSE "reply"]
    /\ UNCHANGED <<interaction, flagsDefined, roles, channels, channelIndex, roleAttempts,
                   attempted, createdChannels, followUps, setupReply,
                   listingVars, limiterVars, runVars>>

\* await interaction.reply(...); return.  Rejected, the handler rejects
SetupOutsideGuild(s, ok) ==
    /\ spc[s] = "reply"
    /\ setupReply' = [setupReply EXCEPT ![s] = IF ok THEN "server only" ELSE @]
    /\ spc' = [spc EXCEPT ![s] = IF ok THEN "done" ELSE "rejected"]
    /\ UNCHANGED <<interaction, flagsDefined, roles, channels, channelIndex, roleAttempts,
                   attempted, createdChannels, followUps, listingVars, limiterVars, runVars>>

\* await interaction.deferReply(...) and the code up to the next await.
\* PermissionsBitField.FLAGS undefined, FLAGS.ADMINISTRATOR throws a TypeError
\* outside the try block; the member no administrator, editReply(You need
\* administrator permissions ...) is awaited; else the role is looked up and,
\* if the cache has none, guild.roles.create is called; if it has one, the
\* loop over the channel names starts
SetupDefer(s, ok) ==
    /\ spc[s] = "defer"
    /\ IF ~ok
       THEN /\ spc' = [spc EXCEPT ![s] = "rejected"]
            /\ UNCHANGED <<setupReply, roleAttempts, channelIndex, attempted>>
       ELSE /\ setupReply' = [setupReply EXCEPT ![s] = "deferred"]
            /\ IF ~flagsDefined
               THEN /\ spc' = [spc EXCEPT ![s] = "threw"]
                    /\ UNCHANGED <<roleAttempts, channelIndex, attempted>>
               ELSE IF ~interaction[s].administrator
               THEN /\ spc' = [spc EXCEPT ![s] = "refuse"]
                    /\ UNCHANGED <<roleAttempts, channelIndex, attempted>>
               ELSE IF hasRole(roles)
               THEN /\ roleAttempts' = roleAttempts
                    /\ loopFrom(s, 1, channels)
               ELSE /\ roleAttempts' = roleAttempts + 1
                    /\ spc' = [spc EXCEPT ![s] = "create role"]
                    /\ UNCHANGED <<channelIndex, attempted>>
    /\ UNCHANGED <<interaction, flagsDefined, roles, channels, createdChannels, followUps,
                   listingVars, limiterVars, runVars>>

\* await editReply(You need administrator permissions ...); return.  Rejected,
\* the handler rejects
SetupNotAdministrator(s, ok) ==
    /\ spc[s] = "refuse"
    /\ setupReply' = [setupReply EXCEPT ![s] = IF ok THEN "administrators only" ELSE @]
    /\ spc' = [spc EXCEPT ![s] = IF ok THEN "done" ELSE "rejected"]
    /\ UNCHANGED <<interaction, flagsDefined, roles, channels, channelIndex, roleAttempts,
                   attempted, createdChannels, followUps, listingVars, limiterVars, runVars>>

\* botRole = await guild.roles.create(...): the role is in the cache and
\* guild.members.fetch is awaited; rejected, the catch of the handler awaits
\* its reply
SetupCreateRole(s, ok) ==
    /\ spc[s] = "create role"
    /\ roles' = IF ok THEN Append(roles, BotRole) ELSE roles
    /\ spc' = [spc EXCEPT ![s] = IF ok THEN "fetch member" ELSE "catch"]
    /\ UNCHANGED <<interaction, flagsDefined, channels, channelIndex, roleAttempts,
                   attempted, createdChannels, followUps, setupReply,
                   listingVars, limiterVars, runVars>>

\* await guild.members.fetch(client.user.id): botMember.roles.add is awaited;
\* rejected, catch (roleError) logs it and the loop over the names starts
SetupFetchMember(s, ok) ==
    /\ spc[s] = "fetch member"
    /\ IF ok
       THEN /\ spc' = [spc EXCEPT ![s] = "add role"]
            /\ UNCHANGED <<channelIndex, attempted>>
       ELSE loopFrom(s, 1, channels)
    /\ UNCHANGED <<interaction, flagsDefined, roles, channels, roleAttempts,
                   createdChannels, followUps, setupReply, listingVars, limiterVars, runVars>>

\* await botMember.roles.add(botRole): resolved, or rejected and logged by
\* catch (roleError), the loop over the names starts
SetupAddRole(s) ==
    /\ spc[s] = "add role"
    /\ loopFrom(s, 1, channels)
    /\ UNCHANGED <<interaction, flagsDefined, roles, channels, roleAttempts,
                   createdChannels, followUps, setupReply, listingVars, limiterVars, runVars>>

\* channel = await guild.channels.create(...): the channel is in the cache,
\* its name is pushed and the loop goes on; rejected, catch (channelError)
\* awaits followUp(Failed to create ...)
SetupCreateChannel(s, ok) ==
    /\ spc[s] = "create channel"
    /\ IF ok
       THEN /\ channels' = Append(channels, Channel(ALLOWED_CHANNEL_NAMES[channelIndex[s]], 0))
            /\ createdChannels' = [createdChannels EXCEPT
                                      ![s] = Append(@, ALLOWED_CHANNEL_NAMES[channelIndex[s]])]
            /\ loopFrom(s, channelIndex[s] + 1, channels')
       ELSE /\ spc' = [spc EXCEPT ![s] = "follow up"]
            /\ UNCHANGED <<channels, createdChannels, channelIndex, attempted>>
    /\ UNCHANGED <<interaction, flagsDefined, roles, roleAttempts, followUps, setupReply,
                   listingVars, limiterVars, runVars>>

\* await interaction.followUp(Failed to create ...): the loop goes on;
\* rejected, the catch of the handler awaits its reply
SetupFollowUp(s, ok) ==
    /\ spc[s] = "follow up"
    /\ IF ok
       THEN /\ followUps' = [followUps EXCEPT
                                ![s] = Append(@, ALLOWED_CHANNEL_NAMES[channelIndex[s]])]
            /\ loopFrom(s, channelIndex[s] + 1, channels)
       ELSE /\ spc' = [spc EXCEPT ![s] = "catch"]
            /\ UNCHANGED <<followUps, channelIndex, attempted>>
    /\ UNCHANGED <<interaction, flagsDefined, roles, channels, roleAttempts, createdChannels,
                   setupReply, listingVars, limiterVars, runVars>>

\* await editReply(Successfully created channels ...) or editReply(All
\* necessary channels already exist ...); rejected, the catch of the handler
\* awaits its reply
SetupFinish(s, ok) ==
    /\ spc[s] = "finish"
    /\ setupReply' = [setupReply EXCEPT
                         ![s] = IF ~ok THEN @
                                ELSE IF Len(createdChannels[s]) > 0 THEN "created"
                                ELSE "all exist"]
    /\ spc' = [spc EXCEPT ![s] = IF ok THEN "done" ELSE "catch"]
    /\ UNCHANGED <<interaction, flagsDefined, roles, channels, channelIndex, roleAttempts,
                   attempted, createdChannels, followUps, listingVars, limiterVars, runVars>>

\* catch (error): await editReply(Failed to set up channels ...).  Rejected,
\* the handler rejects, the reply left as it was
SetupCatch(s, ok) ==
    /\ spc[s] = "catch"
    /\ setupReply' = [setupReply EXCEPT ![s] = IF ok THEN "failed" ELSE @]
    /\ spc' = [spc EXCEPT ![s] = IF ok THEN "done" ELSE "rejected"]
    /\ UNCHANGED <<interaction, flagsDefined, roles, channels, channelIndex, roleAttempts,
                   attempted, createdChannels, followUps, listingVars, limiterVars, runVars>>

NextSetup ==
    \E s \in SetupRuns :
        \/ SetupStart(s)
        \/ \E ok \in BOOLEAN : SetupOutsideGuild(s, ok)
        \/ \E ok \in BOOLEAN : SetupDefer(s, ok)
        \/ \E ok \in BOOLEAN : SetupNotAdministrator(s, ok)
        \/ \E ok \in BOOLEAN : SetupCreateRole(s, ok)
        \/ \E ok \in BOOLEAN : SetupFetchMember(s, ok)
        \/ SetupAddRole(s)
        \/ \E ok \in BOOLEAN : SetupCreateChannel(s, ok)
        \/ \E ok \in BOOLEAN : SetupFollowUp(s, ok)
        \/ \E ok \in BOOLEAN : SetupFinish(s, ok)
        \/ \E ok \in BOOLEAN : SetupCatch(s, ok)

SpecSetup == InitSetup /\ [][NextSetup]_vars

\* the handler of the command has ended: by a return, by the TypeError or by a
\* rejection it let through
setupEnded(s) == spc[s] \in {"done", "threw", "rejected"}

\* the names the commands created a channel for
createdNames ==
    UNION { {createdChannels[s][i] : i \in 1..Len(createdChannels[s])} : s \in SetupRuns }

\* the names that had a channel when the commands arrived
existingChannels ==
    {channels[k].name : k \in 1..Len(channels)} \ createdNames

\* the names the command called guild.channels.create with
attemptedNames(s) == {attempted[k].name : k \in {j \in 1..Len(attempted) : attempted[j].by = s}}

\* C26: /setupchannels creates a role or a channel only when it is invoked in
\* a guild by an administrator; and invoked so, once it has ended, it has
\* tried to create every allowed channel name the guild did not have; a name
\* the guild has a channel for is never created again.
C26_SetupAdministratorOnly ==
    /\ \A s \in SetupRuns :
          (spc[s] \in {"create role", "fetch member", "add role"} \/ attemptedNames(s) # {}) =>
                interaction[s].guild /\ interaction[s].administrator
    /\ \A s \in SetupRuns :
          (setupEnded(s) /\ interaction[s].guild /\ interaction[s].administrator) =>
                \A name \in AllowedNames \ existingChannels :
                    \E t \in SetupRuns : name \in attemptedNames(t)
    /\ \A k \in 1..Len(attempted) : attempted[k].name \notin existingChannels
    /\ \A k, l \in 1..Len(channels) :
          (channels[k].name = channels[l].name /\ channels[k].name \in AllowedNames) => k = l

-----------------------------------------------------------------------------
(* Properties of the heuristic image association *)

\* the source an img gives: src, or data-src when src is missing or empty
urlOf(img) == IF Truthy(img.src) THEN img.src ELSE img.dataSrc

\* the levels above the only anchor of the page that the search visits
levels == 1..Min(3, Len(doc.anchors[1].anc))

\* the image url expected when the ancestor levels in from have an image and
\* the pool images in hits match: the first image of the nearest level, else
\* the first matching pool image, else none
associated(from, hits) ==
    LET a == doc.anchors[1]
        pool == allImages(doc)
        nearest == CHOOSE i \in from : \A j \in from : i <= j
        first == CHOOSE n \in hits : \A m \in hits : n <= m
        imageUrl == newsItems[1].imageUrl
    IN  IF from # {}
        THEN IF Truthy(urlOf(a.anc[nearest])) THEN imageUrl = urlOf(a.anc[nearest])
             ELSE ~Truthy(imageUrl)
        ELSE IF hits # {} THEN imageUrl = pool[first].src
        ELSE ~Truthy(imageUrl)

\* the page has one anchor and the heuristic path returned its item
oneAnchorItem ==
    /\ phase = "returned" /\ path = "fallback"
    /\ Len(doc.anchors) = 1 /\ Len(newsItems) = 1

\* C27 as stated: the image is the first image of the nearest of the three
\* levels that has an image; the pool is used only when no level has one, and
\* then its first image whose alt is contained in the title or contains the
\* first 20 characters of the title.
C27_NearestAncestorFirst ==
    oneAnchorItem =>
        LET a == doc.anchors[1]
            pool == allImages(doc)
            title == newsItems[1].title
        IN  associated({i \in levels : a.anc[i].found},
                       {n \in 1..Len(pool) :
                            \/ Includes(title, pool[n].alt)
                            \/ Includes(pool[n].alt, SubstringTo(title, 20))})

\* C27, amended: a level supplies an image when its first image has a src or
\* a data-src, and a pool image matches only with a non-empty alt.
C27_NearestSupplyingAncestorFirst ==
    oneAnchorItem =>
        LET a == doc.anchors[1]
            pool == allImages(doc)
            title == newsItems[1].title
        IN  associated({i \in levels : a.anc[i].found /\ Truthy(urlOf(a.anc[i]))},
                       {n \in 1..Len(pool) :
                            /\ Truthy(pool[n].alt)
                            /\ \/ Includes(title, pool[n].alt)
                               \/ Includes(pool[n].alt, SubstringTo(title, 20))})

\* the first image of the parent has no source and the image of the
\* grandparent was used
C27_Witness ==
    /\ oneAnchorItem
    /\ Len(doc.anchors[1].anc) >= 2
    /\ doc.anchors[1].anc[1].found /\ ~Truthy(urlOf(doc.anchors[1].anc[1]))
    /\ Truthy(newsItems[1].imageUrl)
    /\ newsItems[1].imageUrl = urlOf(doc.anchors[1].anc[2])

-----------------------------------------------------------------------------
(* Progress of the limiter and of the runs *)

\* The limiter compares times by their differences only (Date.now() against
\* _lastReservoirRefresh and against the start time of a scheduled job), so the
\* origin of the clock can be moved to the last refill: time goes on for ever
\* in finitely many states.
Rebase ==
    /\ lastReservoirRefresh > 0
    /\ now' = now - lastReservoirRefresh
    /\ at' = [r \in Runs |-> IF job[r] = "scheduled" THEN at[r] - lastReservoirRefresh
                             ELSE at[r]]
    /\ lastReservoirRefresh' = 0
    /\ UNCHANGED <<reservoir, running, nextRequestIn, queue, job, pc, sinceDispatch,
                   admitted, dispatched, listingVars, runVars, setupVars>>

NextProgress ==
    \/ Rebase
    \/ lastReservoirRefresh = 0 /\ NextLimiter

\* Timers fire, the heartbeat runs and time passes; every GET that was started
\* settles (the proviso of the claim); a run, whose item list is finite, does
\* not fetch details for ever.  Nothing obliges a user to invoke the command.
FairProgress ==
    /\ WF_vars(Tick) /\ WF_vars(Heartbeat) /\ WF_vars(Rebase)
    /\ \A r \in Runs :
          /\ WF_vars(Execute(r))
          /\ WF_vars(\E hasItems \in BOOLEAN : CompleteListing(r, hasItems))
          /\ WF_vars(CompleteDetails(r))
          /\ SF_vars(Finish(r))

SpecProgress == InitLimiter /\ [][NextProgress]_vars /\ FairProgress

\* C28: provided every GET that was started settles, every GET handed to the
\* limiter is eventually started and every run eventually ends with its final
\* reply; a GET that fails frees its slot like one that succeeds.
C28_Progress ==
    \A r \in Runs :
        /\ (job[r] \in {"queued", "scheduled"}) ~> (job[r] = "executing")
        /\ (pc[r] # "idle") ~> (pc[r] = "idle")

\* the run of r1 has ended after its only GET of the period, which gave no
\* item or failed, and the GET of r2, admitted behind it, is in flight
C28_Witness ==
    \E r1, r2 \in Runs :
        /\ pc[r1] = "idle" /\ job[r1] = "none"
        /\ pc[r2] = "listing" /\ job[r2] = "executing"
        /\ admitted = 2 /\ dispatched = 2

-----------------------------------------------------------------------------
(* Properties of a whole run: requests and posting *)

\* C29: a run, which starts where fetchNintendoNews is called, issues exactly
\* one GET for the listing, the first, and at most one GET for the article of
\* each returned item, to that item's link: at most 1 + limit GETs in all;
\* when the listing fetch failed or gave no item, the listing GET is the only
\* one.  A command that ends before it calls fetchNintendoNews issues no GET.
C29_RequestBudget ==
    /\ phase = "idle" => gets = <<>>
    /\ phase # "idle" =>
          (Len(gets) >= 1 /\ gets[1].item = 0 /\ gets[1].url = NINTENDO_NEWS_URL)
    /\ \A n \in 2..Len(gets) :
          /\ gets[n].item \in 1..Len(newsItems)
          /\ gets[n].url = newsItems[gets[n].item].link
          /\ \A m \in 2..Len(gets) : gets[m].item = gets[n].item => m = n
    /\ Len(gets) <= 1 + Len(newsItems)
    /\ Len(gets) <= 1 + limit
    /\ (phase = "caught" \/ (phase = "returned" /\ Len(newsItems) = 0)) => Len(gets) = 1

\* count 1, a listing of two articles: the run ended with 1 + 1 GETs
C29_Witness ==
    /\ rpc = "done" /\ limit = 1
    /\ Len(matchedNodes) = 2
    /\ Len(gets) = 1 + limit

\* a step that sends an embed
Sends == Len(sent') > Len(sent)

\* C30: the embeds are sent one at a time, in item order: the k-th embed sent
\* is that of the k-th item, built after the item's own enrichment step, when
\* no article GET is awaited; "Successfully posted N" is the reply only once
\* all N embeds were sent; when building or sending the embed of item k fails,
\* the k - 1 embeds sent before stay, no further embed is sent, the success
\* message is never the reply, and the handler's last reply is the error
\* message, with which it returns (Discord rejecting that reply too, the handler
\* rejects and the reply stays "Found ...").
C30_PostingOrder ==
    [][/\ Sends =>
             /\ rpc = "post"
             /\ Len(sent') = Len(sent) + 1 /\ SubSeq(sent', 1, Len(sent)) = sent
             /\ Len(sent') = itemIndex
             /\ sent'[itemIndex] = newsEmbed(newsItems[itemIndex])
             /\ needsDetails(news) => (Len(gets) > 0 /\ gets[Len(gets)].item = itemIndex)
       /\ ~Sends => sent' = sent
       /\ reply' = "posted" =>
             /\ rpc' = "done" /\ error' = "none"
             /\ Len(sent') = Len(newsItems') /\ Len(sent') > 0
       /\ error' = "embed" =>
             /\ rpc' \in {"catch", "done", "rejected"}
             /\ reply' = IF rpc' = "done" THEN "sorry" ELSE "found"
             /\ sent' = sent /\ Len(sent') = itemIndex' - 1
       /\ rpc \in {"done", "rejected"} => (sent' = sent /\ reply' = reply)]_vars

\* sending the embed of the second item failed: the first embed stays, the
\* reply is the error message
C30_Witness ==
    /\ rpc = "done" /\ reply = "sorry" /\ error = "embed"
    /\ Len(newsItems) = 2 /\ itemIndex = 2
    /\ Len(sent) = 1 /\ sent[1] = newsEmbed(newsItems[1])

====
